---- MODULE Spec2Model ----
(***************************************************************************)
(* Cloud reconciler (gcp/cloud_reconciler/main.py, state_machine.py).      *)
(*                                                                         *)
(* One run (runs/<run_id>/) in one bucket, and the reconciler invocations  *)
(* of Procs working on it concurrently.  Every blocking call against the   *)
(* blob store or the compute API is one step; the pure code between two    *)
(* calls belongs to the step of the call before it.                        *)
(*                                                                         *)
(* Time: timestamps are kept as ages in seconds.  Advance ages every       *)
(* stored and every copied timestamp by TickSec at once; an age stops      *)
(* growing once every comparison the code makes on it is decided.          *)
(*                                                                         *)
(* Store calls: a read may fail transiently (the code turns that into      *)
(* "absent"); a write or delete fails only on its generation precondition  *)
(* or because the object is missing.                                       *)
(***************************************************************************)
EXTENDS Naturals, Sequences, FiniteSets

\* ------------------------------------------------------------ bounds
\* seconds that pass in one Advance step
TickSec == 300
\* state.json generations a behaviour may use
MaxGen == 4
\* restart.lock generations a behaviour may use
MaxLockGen == 3
\* heartbeat timestamps a behaviour may use
MaxHb == 2
\* generations of .owner.lock
MaxOwnerGen == 2

\* ------------------------------------------------- program constants
HEARTBEAT_STALE_SEC == 600
RESTARTING_STUCK_SEC == 600
STALE_MARKER_MIN_AGE_SEC == 120
LOCK_TTL_SEC == 300
HISTORY_MAX == 20
CAS_ATTEMPTS == 3
AUTO_RESTART_MAX == 3

Procs == {"r1", "r2"}

Null == "null"
TERMINAL_STATES == {"COMPLETE", "FAILED", "PARTIAL", "STOPPED"}
States == {"RUNNING", "COMPLETE", "FAILED", "PARTIAL", "PREEMPTED",
           "ORPHANED", "RESTARTING", "STOPPED"}
VALID_ACTORS == {"vm", "reconciler", "local", "operator"}

\* ------------------------------------------------- transition table
\* state_transitions.json: edges
Edges(from) ==
    CASE from = Null -> {"RUNNING", "ORPHANED"}
      [] from = "RUNNING" -> {"COMPLETE", "FAILED", "PARTIAL", "PREEMPTED",
                              "ORPHANED", "STOPPED"}
      [] from = "PREEMPTED" -> {"RESTARTING", "STOPPED"}
      [] from = "ORPHANED" -> {"RESTARTING", "STOPPED"}
      [] from = "RESTARTING" -> {"RUNNING", "ORPHANED", "STOPPED"}
      [] OTHER -> {}

\* state_transitions.json: actor_guards; Guarded(from, to) says the key
\* "<from>:<to>" is present, ActorGuards(from, to) is its actor list
Guarded(from, to) == from = Null /\ to = "ORPHANED"

ActorGuards(from, to) == {"reconciler"}

CanTransitionAny(from_state, to_state, actor) == actor \in VALID_ACTORS

CanTransitionUnguarded(from_state, to_state, actor) ==
    /\ actor \in VALID_ACTORS
    /\ to_state \in Edges(from_state)

\* can_transition, lines 63-87; FALSE stands for the ValueError
CanTransition(from_state, to_state, actor) ==
    /\ actor \in VALID_ACTORS
    /\ to_state \in Edges(from_state)
    /\ Guarded(from_state, to_state) => actor \in ActorGuards(from_state, to_state)

StatusCompat(state) ==
    CASE state = "ORPHANED" -> "PREEMPTED"
      [] state = "RESTARTING" -> "RUNNING"
      [] OTHER -> state

IsTerminal(state) == state \in TERMINAL_STATES

\* ------------------------------------------------------------ state
VARIABLES
    DRY_RUN,        \* the process-wide flag, read once at start-up
    storeFaults,    \* calls on the store and the instance adapter may fail
    stateObj,       \* runs/<id>/state.json
    stateGen,       \* its generation (0: absent)
    statusTxt,      \* runs/<id>/status.txt ("ABSENT" or its content)
    events,         \* number of objects under runs/<id>/events/
    hbObj,          \* runs/<id>/heartbeat.json
    marker,         \* runs/<id>/.reconciler_stale_seen
    restartLock,    \* runs/<id>/restart.lock
    lockGenCtr,     \* the last generation the store gave restart.lock
    ownerLock,      \* runs/<id>/.owner.lock
    stopFile,       \* runs/<id>/.stop exists
    driftDisabled,  \* runs/<id>/.drift_repair_disabled exists
    restartEnabled, \* .reconciler_restart_enabled holds a non-null enabled_at
    restartConfig,  \* runs/<id>/restart_config.json
    manifest,       \* runs/<id>/run_manifest.json
    instances,      \* the compute instances that exist, as <<name, zone>>
    pc,             \* where each invocation stands
    loc,            \* _reconcile_run's and _try_restart's locals
    cas,            \* _write_state_cas's arguments and locals
    scan,           \* reconcile_all's run ids, loop position and actions
    inserted        \* number of instances _create_vm_from_config has created

storeVars == <<stateObj, stateGen, statusTxt, events, hbObj, marker,
               restartLock, lockGenCtr, ownerLock, stopFile>>
configVars == <<DRY_RUN, storeFaults, scan, inserted, driftDisabled, restartEnabled, restartConfig, manifest>>
vars == <<DRY_RUN, storeFaults, scan, inserted, stateObj, stateGen, statusTxt, events, hbObj, marker,
          restartLock, lockGenCtr, ownerLock, stopFile, driftDisabled,
          restartEnabled, restartConfig, manifest, instances, pc, loc, cas>>

\* the outcomes of a call that may fail transiently: TRUE is the failure
Failures == IF storeFaults THEN BOOLEAN ELSE {FALSE}

\* an age after TickSec more seconds; lim is the first age at which every
\* comparison on it is decided
Older(age, lim) == IF age >= lim THEN age ELSE age + TickSec

\* the limits of Older for the four timestamps the code compares
HbLim == HEARTBEAT_STALE_SEC
MarkerLim == STALE_MARKER_MIN_AGE_SEC
LockLim == LOCK_TTL_SEC + 1
StateLim(rec) == IF rec.state = "RESTARTING" THEN RESTARTING_STUCK_SEC + 1 ELSE 0

\* state.json; when absent the fields hold what current.get(..., default) gives
NoState ==
    [exists |-> FALSE, state |-> Null, prev_state |-> Null, state_version |-> 0,
     owner_id |-> "", instance_name |-> "", zone |-> "", attempt |-> 0,
     updated_age |-> 0, updated_by |-> "", reason |-> "", history |-> <<>>]

\* what _write_state_cas reads of the record it downloaded (lines 168-196)
WriterView(rec) ==
    [rec EXCEPT !.prev_state = Null, !.updated_age = 0, !.updated_by = "",
                !.reason = ""]

\* what _reconcile_run and _try_restart read of state_data
TickView(rec) ==
    [rec EXCEPT !.prev_state = Null, !.state_version = 0, !.owner_id = "",
                !.updated_by = "", !.reason = "", !.history = <<>>]

CasIdle ==
    [new_state |-> Null, reason |-> "", actor |-> "", attempt |-> 0,
     current |-> NoState, generation |-> 0, ret |-> "idle", result |-> "none"]

NoHeartbeat == [exists |-> FALSE, timestamp |-> 0, age |-> 0]
NoMarker == [exists |-> FALSE, age |-> 0, heartbeat_epoch_at_observation |-> 0]
NoLock == [exists |-> FALSE, generation |-> 0, age |-> 0, attempt |-> 0]
NoOwner == [exists |-> FALSE, instance |-> "", zone |-> "", generation |-> 0]
NoConfig == [exists |-> FALSE, auto_restart_max |-> 0, fallback_zones |-> <<>>]
NoManifest == [exists |-> FALSE, instance |-> "", zone |-> ""]

\* the locals of _reconcile_run and _try_restart. Three fields are records of
\* what happened in the tick: after_terminal says state.json was terminal when
\* the tick started, vm_alive is what the instance check reported, and
\* adapter_failed says an instance-adapter call ended in an error other than
\* not-found; owner_alive is what the check on the owner's instance reported;
\* hb_epoch is the timestamp heartbeat.json held when the tick went to read it;
\* marker_deleted says whether the tick deleted the marker, and why
LocInit ==
    [state_data |-> NoState, heartbeat_data |-> NoHeartbeat,
     restart_config |-> NoConfig, stale_marker |-> NoMarker,
     inst_name |-> "", zone |-> "", after_terminal |-> FALSE,
     vm_alive |-> "unknown", adapter_failed |-> FALSE,
     owner_alive |-> "unknown", hb_epoch |-> 0, marker_deleted |-> "no",
     lock_gen |-> 0, existing_gen |-> 0, owner |-> NoOwner,
     zone_idx |-> 1, vm_name |-> "", error |-> "", action |-> "none"]

\* the run ids that may be listed under runs/, in sorted order
RunOrder == <<"run-a", "run-b", "run-c">>
RunIds == {RunOrder[i] : i \in DOMAIN RunOrder}

\* reconcile_all before it is invoked. listed is what the listing gave and
\* todo what the loop has still to visit; calls counts the calls of
\* _reconcile_run per run and result keeps what each call gave ("raised"
\* for an exception); actions is the dict of line 824, "absent" for no entry
ScanIdle ==
    [phase |-> "idle", listed |-> {}, todo |-> <<>>,
     calls |-> [r \in RunIds |-> 0],
     result |-> [r \in RunIds |-> "unvisited"],
     actions |-> [r \in RunIds |-> "absent"]]

\* ------------------------------------------------ _write_state_cas
\* a call: the caller's step sets the arguments and where to return to
CasCall(p, new_state, reason, actor, ret) ==
    [cas EXCEPT ![p] = [CasIdle EXCEPT !.new_state = new_state, !.reason = reason,
                                       !.actor = actor, !.ret = ret]]

CasReturn(p, result) ==
    /\ pc' = [pc EXCEPT ![p] = cas[p].ret]
    /\ cas' = [cas EXCEPT ![p] = [CasIdle EXCEPT !.result = result]]

\* lines 153-177: the dry-run short cut, the read, the terminal check and the
\* transition table
CasRead(p) ==
    /\ pc[p] = "cas_read"
    /\ UNCHANGED <<storeVars, configVars, instances, loc>>
    /\ IF DRY_RUN
       THEN CasReturn(p, "accepted")
       ELSE \E failed \in Failures :
              LET current == IF failed THEN NoState ELSE WriterView(stateObj)
                  generation == IF failed THEN 0 ELSE stateGen
              IN  IF IsTerminal(current.state)
                     \/ ~CanTransition(current.state, cas[p].new_state, cas[p].actor)
                  THEN CasReturn(p, "rejected")
                  ELSE /\ pc' = [pc EXCEPT ![p] = "cas_upload"]
                       /\ cas' = [cas EXCEPT ![p].current = current,
                                             ![p].generation = generation]

NextVersionKept(current) == current.state_version

\* line 179
NextVersion(current) == current.state_version + 1

TrimHistoryOldest(history) ==
    IF Len(history) > HISTORY_MAX THEN SubSeq(history, 1, HISTORY_MAX) ELSE history

TrimHistory(history) ==
    IF Len(history) > HISTORY_MAX
    THEN SubSeq(history, Len(history) - HISTORY_MAX + 1, Len(history))
    ELSE history

\* lines 181-184
Entry(current, new_state, reason, actor) ==
    [from |-> current.state, to |-> new_state, by |-> actor, reason |-> reason]

NewDataBare(current, new_state, reason, actor) ==
    [exists |-> TRUE, state |-> new_state,
     prev_state |-> current.state,
     state_version |-> NextVersion(current),
     owner_id |-> "", instance_name |-> "", zone |-> "", attempt |-> 0,
     updated_age |-> 0, updated_by |-> actor, reason |-> reason,
     history |-> TrimHistory(Append(current.history,
                                    Entry(current, new_state, reason, actor)))]

\* lines 179-201
NewData(current, new_state, reason, actor) ==
    [exists |-> TRUE, state |-> new_state,
     prev_state |-> current.state,
     state_version |-> NextVersion(current),
     owner_id |-> current.owner_id,
     instance_name |-> current.instance_name,
     zone |-> current.zone,
     attempt |-> current.attempt,
     updated_age |-> 0, updated_by |-> actor, reason |-> reason,
     history |-> TrimHistory(Append(current.history,
                                    Entry(current, new_state, reason, actor)))]

UploadUnconditional(p) == TRUE

\* line 207: if_generation_match=generation (0 demands that the object is absent)
UploadPrecondition(p) == cas[p].generation = stateGen

\* lines 203-214 and the loop of line 159
CasUpload(p) ==
    /\ pc[p] = "cas_upload"
    /\ UNCHANGED <<statusTxt, events, hbObj, marker, restartLock, lockGenCtr,
                   ownerLock, stopFile, configVars, instances, loc>>
    /\ IF UploadPrecondition(p)
       THEN /\ stateGen < MaxGen
            /\ stateObj' = NewData(cas[p].current, cas[p].new_state,
                                   cas[p].reason, cas[p].actor)
            /\ stateGen' = stateGen + 1
            /\ pc' = [pc EXCEPT ![p] = "cas_status"]
            /\ cas' = cas
       ELSE /\ UNCHANGED <<stateObj, stateGen>>
            /\ IF cas[p].attempt + 1 < CAS_ATTEMPTS
               THEN /\ pc' = [pc EXCEPT ![p] = "cas_read"]
                    /\ cas' = [cas EXCEPT ![p].attempt = @ + 1]
               ELSE CasReturn(p, "rejected")

CasStatusRaw(p) ==
    /\ pc[p] = "cas_status"
    /\ statusTxt' = cas[p].new_state
    /\ events' = events + 1
    /\ CasReturn(p, "accepted")
    /\ UNCHANGED <<stateObj, stateGen, hbObj, marker, restartLock, lockGenCtr,
                   ownerLock, stopFile, configVars, instances, loc>>

\* lines 216-235: status.txt and the event object, both unconditional
CasStatus(p) ==
    /\ pc[p] = "cas_status"
    /\ statusTxt' = StatusCompat(cas[p].new_state)
    /\ events' = events + 1
    /\ CasReturn(p, "accepted")
    /\ UNCHANGED <<stateObj, stateGen, hbObj, marker, restartLock, lockGenCtr,
                   ownerLock, stopFile, configVars, instances, loc>>

\* a worker, an operator or the CLI asking for a transition (any target, any
\* actor) through the same writer
CallTargets == {"RUNNING", "ORPHANED", "RESTARTING", "COMPLETE", "STOPPED"}
CallActors == {"vm", "reconciler"}

WriteStateCall(p) ==
    /\ pc[p] = "idle"
    /\ \E new_state \in CallTargets, actor \in CallActors :
          cas' = CasCall(p, new_state, "external", actor, "call_done")
    /\ pc' = [pc EXCEPT ![p] = "cas_read"]
    /\ loc' = [loc EXCEPT ![p] = LocInit]
    /\ UNCHANGED <<storeVars, configVars, instances>>

WriteStateDone(p) ==
    /\ pc[p] = "call_done"
    /\ pc' = [pc EXCEPT ![p] = "idle"]
    /\ cas' = [cas EXCEPT ![p] = CasIdle]
    /\ UNCHANGED <<storeVars, configVars, instances, loc>>

\* ------------------------------------------------- _reconcile_run
Goto(p, label) == pc' = [pc EXCEPT ![p] = label]

\* _reconcile_run returns action ("none" for None, "raised" when an exception
\* leaves it for reconcile_all's handler); the invocation is over
Return(p, action) ==
    /\ pc' = [pc EXCEPT ![p] = "done"]
    /\ loc' = [loc EXCEPT ![p] = [LocInit EXCEPT !.action = action]]
    /\ cas' = [cas EXCEPT ![p] = CasIdle]

\* reconcile_all, line 829
ReconcileStart(p) ==
    /\ pc[p] = "idle"
    /\ Goto(p, "rr_state")
    /\ loc' = [loc EXCEPT ![p] = [LocInit EXCEPT !.after_terminal =
                                                 IsTerminal(stateObj.state)]]
    /\ cas' = [cas EXCEPT ![p] = CasIdle]
    /\ UNCHANGED <<storeVars, configVars, instances>>

\* line 277; _blob_json gives None for a missing object and for a failed read
ReadState(p) ==
    /\ pc[p] = "rr_state"
    /\ \E failed \in Failures :
          loc' = [loc EXCEPT ![p].state_data =
                                IF failed THEN NoState ELSE TickView(stateObj)]
    /\ Goto(p, "rr_hb")
    /\ UNCHANGED <<storeVars, configVars, instances, cas>>

\* lines 278-290 and 243-245
ReadHeartbeat(p) ==
    /\ pc[p] = "rr_hb"
    /\ UNCHANGED <<storeVars, configVars, instances>>
    /\ \E hb_failed \in Failures, cfg_failed \in Failures :
          LET sd == loc[p].state_data
              hb == IF hb_failed THEN NoHeartbeat ELSE hbObj
              cfg == IF cfg_failed THEN NoConfig ELSE restartConfig
          IN  IF sd.exists /\ IsTerminal(sd.state)
              THEN Return(p, "none")
              ELSE /\ loc' = [loc EXCEPT ![p].heartbeat_data = hb,
                                         ![p].hb_epoch = hbObj.timestamp,
                                         ![p].restart_config = cfg]
                   /\ cas' = cas
                   /\ IF sd.exists /\ sd.state # "RESTARTING"
                      THEN Goto(p, "drift_status")
                      ELSE Goto(p, "rr_decide")

\* _repair_status_drift, lines 247-262
DriftStatus(p) ==
    /\ pc[p] = "drift_status"
    /\ UNCHANGED <<storeVars, configVars, instances>>
    /\ \E read_failed \in Failures, exists_raised \in Failures :
          LET expected_status == StatusCompat(loc[p].state_data.state)
              actual_status == IF read_failed THEN "ABSENT" ELSE statusTxt
          IN  IF actual_status = expected_status
              THEN Goto(p, "rr_decide") /\ UNCHANGED <<loc, cas>>
              ELSE IF exists_raised
              THEN Return(p, "raised")
              ELSE IF driftDisabled \/ DRY_RUN
              THEN Goto(p, "rr_decide") /\ UNCHANGED <<loc, cas>>
              ELSE Goto(p, "drift_write") /\ UNCHANGED <<loc, cas>>

\* lines 264-269
DriftWrite(p) ==
    /\ pc[p] = "drift_write"
    /\ statusTxt' = StatusCompat(loc[p].state_data.state)
    /\ Goto(p, "rr_decide")
    /\ UNCHANGED <<stateObj, stateGen, events, hbObj, marker, restartLock,
                   lockGenCtr, ownerLock, stopFile, configVars, instances, loc, cas>>

HbFresh(hb) == hb.exists /\ hb.age < HEARTBEAT_STALE_SEC

Stuck(sd) == sd.updated_age > RESTARTING_STUCK_SEC

\* the stuck recovery's write, line 323
StuckRecover(p) ==
    /\ Goto(p, "cas_read")
    /\ cas' = CasCall(p, "ORPHANED", "restarting_stuck_recovery", "reconciler",
                      "stuck_unlock")

\* lines 293-304, 337-360: what the tick does with what it has read
Decide(p) ==
    /\ pc[p] = "rr_decide"
    /\ UNCHANGED <<storeVars, configVars, instances>>
    /\ LET sd == loc[p].state_data
           hb == loc[p].heartbeat_data
       IN  IF sd.exists /\ sd.state = "RESTARTING"
           THEN IF ~Stuck(sd)
                THEN Return(p, "none")
                ELSE IF sd.instance_name # "" /\ sd.zone # ""
                THEN Goto(p, "stuck_vm") /\ UNCHANGED <<loc, cas>>
                ELSE IF HbFresh(hb)
                THEN Return(p, "none")
                ELSE StuckRecover(p) /\ loc' = loc
           ELSE IF ~hb.exists
           THEN Return(p, "none")
           ELSE IF HbFresh(hb)
           THEN Goto(p, "fresh_marker") /\ UNCHANGED <<loc, cas>>
           ELSE Goto(p, "marker_read") /\ UNCHANGED <<loc, cas>>

\* _vm_exists, lines 117-129: an error other than NotFound counts as "exists"
VmExists(name, zone, failed) == failed \/ <<name, zone>> \in instances

\* lines 305-318
StuckVm(p) ==
    /\ pc[p] = "stuck_vm"
    /\ UNCHANGED <<storeVars, configVars, instances>>
    /\ \E failed \in Failures :
          LET sd == loc[p].state_data
              vm_alive == VmExists(sd.instance_name, sd.zone, failed)
          IN  IF ~vm_alive /\ ~HbFresh(loc[p].heartbeat_data)
              THEN /\ StuckRecover(p)
                   /\ loc' = [loc EXCEPT ![p].adapter_failed = failed,
                                         ![p].vm_alive = "no"]
              ELSE Return(p, "none")

\* lines 324-334: the unconditional delete of restart.lock
StuckUnlock(p) ==
    /\ pc[p] = "stuck_unlock"
    /\ restartLock' = IF DRY_RUN THEN restartLock ELSE NoLock
    /\ Return(p, "restarting_stuck_recovered")
    /\ UNCHANGED <<stateObj, stateGen, statusTxt, events, hbObj, marker,
                   lockGenCtr, ownerLock, stopFile, configVars, instances>>

FreshMarkerLive(p) ==
    /\ pc[p] = "fresh_marker"
    /\ UNCHANGED <<storeVars, configVars, instances>>
    /\ IF marker.exists
       THEN Goto(p, "fresh_delete") /\ UNCHANGED <<loc, cas>>
       ELSE Return(p, "none")

\* lines 360-369
FreshMarker(p) ==
    /\ pc[p] = "fresh_marker"
    /\ UNCHANGED <<storeVars, configVars, instances>>
    /\ \E exists_raised \in Failures :
          IF exists_raised
          THEN Return(p, "raised")
          ELSE IF marker.exists /\ ~DRY_RUN
          THEN Goto(p, "fresh_delete") /\ UNCHANGED <<loc, cas>>
          ELSE Return(p, "none")

FreshDeleteKept(p) ==
    /\ pc[p] = "fresh_delete"
    /\ marker' = marker
    /\ Return(p, "none")
    /\ UNCHANGED <<stateObj, stateGen, statusTxt, events, hbObj, restartLock,
                   lockGenCtr, ownerLock, stopFile, configVars, instances>>

\* lines 363-369
FreshDelete(p) ==
    /\ pc[p] = "fresh_delete"
    /\ marker' = NoMarker
    /\ pc' = [pc EXCEPT ![p] = "done"]
    /\ loc' = [loc EXCEPT ![p] = [LocInit EXCEPT !.action = "none",
                                                 !.marker_deleted = "recovered"]]
    /\ cas' = [cas EXCEPT ![p] = CasIdle]
    /\ UNCHANGED <<stateObj, stateGen, statusTxt, events, hbObj, restartLock,
                   lockGenCtr, ownerLock, stopFile, configVars, instances>>

MarkerOldEnoughAlways(m) == TRUE

MarkerOldEnoughNever(m) == FALSE

\* lines 400-405
MarkerOldEnough(m) == ~(m.age < STALE_MARKER_MIN_AGE_SEC)

EpochIgnored(m, hb) == TRUE

\* line 410; epoch 0 stands for a marker without the field
EpochUnchanged(m, hb) ==
    ~(m.heartbeat_epoch_at_observation # 0
      /\ m.heartbeat_epoch_at_observation # hb.timestamp)

\* lines 372-432
MarkerRead(p) ==
    /\ pc[p] = "marker_read"
    /\ UNCHANGED <<storeVars, configVars, instances, cas>>
    /\ \E failed \in Failures :
          LET stale_marker == IF failed THEN NoMarker ELSE marker
              sd == loc[p].state_data
          IN  IF ~stale_marker.exists
              THEN IF DRY_RUN
                   THEN Return(p, "stale_first_observation")
                   ELSE Goto(p, "marker_write") /\ loc' = loc
              ELSE IF ~MarkerOldEnough(stale_marker)
              THEN Return(p, "none")
              ELSE IF ~EpochUnchanged(stale_marker, loc[p].heartbeat_data)
              THEN IF DRY_RUN
                   THEN Return(p, "none")
                   ELSE Goto(p, "marker_reset") /\ loc' = loc
              ELSE /\ loc' = [loc EXCEPT ![p].stale_marker = stale_marker,
                                         ![p].inst_name = sd.instance_name,
                                         ![p].zone = sd.zone]
                   /\ IF sd.instance_name = "" \/ sd.zone = ""
                      THEN Goto(p, "manifest_read")
                      ELSE Goto(p, "vm_check")

MarkerWriteBlank(p) ==
    /\ pc[p] = "marker_write"
    /\ marker' = [exists |-> TRUE, age |-> 0, heartbeat_epoch_at_observation |-> 0]
    /\ Return(p, "stale_first_observation")
    /\ UNCHANGED <<stateObj, stateGen, statusTxt, events, hbObj, restartLock,
                   lockGenCtr, ownerLock, stopFile, configVars, instances>>

\* lines 376-393
MarkerWrite(p) ==
    /\ pc[p] = "marker_write"
    /\ marker' = [exists |-> TRUE, age |-> 0,
                  heartbeat_epoch_at_observation |-> loc[p].heartbeat_data.timestamp]
    /\ Return(p, "stale_first_observation")
    /\ UNCHANGED <<stateObj, stateGen, statusTxt, events, hbObj, restartLock,
                   lockGenCtr, ownerLock, stopFile, configVars, instances>>

\* lines 413-418
MarkerReset(p) ==
    /\ pc[p] = "marker_reset"
    /\ marker' = NoMarker
    /\ pc' = [pc EXCEPT ![p] = "done"]
    /\ loc' = [loc EXCEPT ![p] = [LocInit EXCEPT !.action = "none",
                                                 !.marker_deleted = "reset"]]
    /\ cas' = [cas EXCEPT ![p] = CasIdle]
    /\ UNCHANGED <<stateObj, stateGen, statusTxt, events, hbObj, restartLock,
                   lockGenCtr, ownerLock, stopFile, configVars, instances>>

\* lines 428-432
ManifestRead(p) ==
    /\ pc[p] = "manifest_read"
    /\ \E failed \in Failures :
          LET m == IF failed THEN NoManifest ELSE manifest
          IN  loc' = [loc EXCEPT
                        ![p].inst_name = IF @ # "" THEN @ ELSE m.instance,
                        ![p].zone = IF @ # "" THEN @ ELSE m.zone]
    /\ Goto(p, "vm_check")
    /\ UNCHANGED <<storeVars, configVars, instances, cas>>

\* the worker's instance, and the replacement of an attempt (lines 603-607)
WorkerVm == "ixqt-trainer-run-a1"
WorkerZone == "us-east1-c"
VmNames == <<"spot-runner-run-1", "spot-runner-run-2", "spot-runner-run-3">>
VmName(attempt) == VmNames[attempt]

\* VM_NAME_FILTER, line 46
PatternMatches(name) == name = WorkerVm

\* _vm_search_by_pattern, lines 132-148: None when the search fails
VmSearchByPattern(failed) == ~failed /\ \E i \in instances : PatternMatches(i[1])

\* lines 451-469: the VM is gone and the heartbeat was stale twice
ConfirmOrphan(p, failed) ==
    LET sd == loc[p].state_data
        reason == IF sd.exists THEN "stale_heartbeat_vm_gone"
                  ELSE "legacy_bootstrap_orphaned"
    IN  IF sd.exists /\ sd.state = "PREEMPTED"
        THEN Return(p, "preempted_confirmed")
        ELSE /\ loc' = [loc EXCEPT ![p].adapter_failed = failed,
                                   ![p].vm_alive = "no"]
             /\ IF sd.exists \/ ~DRY_RUN
                THEN /\ Goto(p, "cas_read")
                     /\ cas' = CasCall(p, "ORPHANED", reason, "reconciler",
                                       "orph_marker")
                ELSE Goto(p, "orph_marker") /\ cas' = cas

\* lines 434-447
VmCheck(p) ==
    /\ pc[p] = "vm_check"
    /\ UNCHANGED <<storeVars, configVars, instances>>
    /\ \E failed \in Failures :
          IF loc[p].inst_name # "" /\ loc[p].zone # ""
          THEN IF VmExists(loc[p].inst_name, loc[p].zone, failed)
               THEN Return(p, "stale_vm_alive")
               ELSE ConfirmOrphan(p, failed)
          ELSE IF VmSearchByPattern(failed)
               THEN Return(p, "stale_vm_found_by_pattern")
               ELSE ConfirmOrphan(p, failed)

RollbackSkipped(p, error) ==
    /\ Goto(p, "rb_release")
    /\ cas' = [cas EXCEPT ![p] = CasIdle]
    /\ loc' = [loc EXCEPT ![p].error = error]

\* ----------------------------------------------------- _try_restart
\* the except branch of lines 767-773: roll the state back
Rollback(p, error) ==
    /\ Goto(p, "cas_read")
    /\ cas' = CasCall(p, loc[p].state_data.state, "restart_rollback",
                      "reconciler", "rb_release")
    /\ loc' = [loc EXCEPT ![p].error = error]

OrphMarkerKept(p) ==
    /\ pc[p] = "orph_marker"
    /\ Goto(p, "tr_enabled")
    /\ cas' = [cas EXCEPT ![p] = CasIdle]
    /\ UNCHANGED <<storeVars, configVars, instances, loc>>

\* lines 477-482 and 689-692
OrphMarker(p) ==
    /\ pc[p] = "orph_marker"
    /\ marker' = IF DRY_RUN THEN marker ELSE NoMarker
    /\ IF DRY_RUN
       THEN Return(p, "orphaned")
       ELSE /\ Goto(p, "tr_enabled")
            /\ cas' = [cas EXCEPT ![p] = CasIdle]
            /\ loc' = loc
    /\ UNCHANGED <<stateObj, stateGen, statusTxt, events, hbObj, restartLock,
                   lockGenCtr, ownerLock, stopFile, configVars, instances>>

\* lines 694-711: _is_restart_enabled and the checks on what the tick read
TryRestartChecks(p) ==
    /\ pc[p] = "tr_enabled"
    /\ UNCHANGED <<storeVars, configVars, instances>>
    /\ \E failed \in Failures :
          LET sd == loc[p].state_data
              cfg == loc[p].restart_config
          IN  IF \/ failed
                 \/ ~restartEnabled
                 \/ ~cfg.exists
                 \/ sd.state \notin {"PREEMPTED", "ORPHANED"}
                 \/ sd.attempt >= cfg.auto_restart_max
              THEN Return(p, "orphaned")
              ELSE Goto(p, "tr_stop") /\ UNCHANGED <<loc, cas>>

StopCheckSkipped(p) ==
    /\ pc[p] = "tr_stop"
    /\ Goto(p, "lock_create")
    /\ UNCHANGED <<storeVars, configVars, instances, loc, cas>>

\* lines 713-716
StopCheck(p) ==
    /\ pc[p] = "tr_stop"
    /\ UNCHANGED <<storeVars, configVars, instances>>
    /\ \E exists_raised \in Failures :
          IF exists_raised
          THEN Return(p, "raised")
          ELSE IF stopFile
          THEN Return(p, "orphaned")
          ELSE Goto(p, "lock_create") /\ UNCHANGED <<loc, cas>>

NewAttempt(p) == loc[p].state_data.attempt + 1

NewLock(p) ==
    [exists |-> TRUE, generation |-> lockGenCtr + 1, age |-> 0,
     attempt |-> NewAttempt(p)]

\* _acquire_restart_lock_cas, lines 506-517: create-only upload
LockCreate(p) ==
    /\ pc[p] = "lock_create"
    /\ UNCHANGED <<stateObj, stateGen, statusTxt, events, hbObj, marker,
                   ownerLock, stopFile, configVars, instances, cas>>
    /\ IF ~restartLock.exists
       THEN /\ lockGenCtr < MaxLockGen
            /\ restartLock' = NewLock(p)
            /\ lockGenCtr' = lockGenCtr + 1
            /\ loc' = [loc EXCEPT ![p].lock_gen = lockGenCtr + 1]
            /\ Goto(p, "owner_read")
       ELSE /\ UNCHANGED <<restartLock, lockGenCtr, loc>>
            /\ Goto(p, "lock_inspect")

LockExpiredNever(lock) == FALSE

LockExpiredAlways(lock) == TRUE

\* lines 522-527: age > ttl
LockExpired(lock) == lock.age > LOCK_TTL_SEC

\* lines 519-527, 540-542
LockInspect(p) ==
    /\ pc[p] = "lock_inspect"
    /\ UNCHANGED <<storeVars, configVars, instances>>
    /\ \E failed \in Failures :
          IF failed \/ ~restartLock.exists \/ ~LockExpired(restartLock)
          THEN Return(p, "orphaned")
          ELSE /\ loc' = [loc EXCEPT ![p].existing_gen = restartLock.generation]
               /\ Goto(p, "lock_reclaim")
               /\ cas' = cas

\* line 530: delete(if_generation_match=existing_gen)
LockReclaim(p) ==
    /\ pc[p] = "lock_reclaim"
    /\ UNCHANGED <<stateObj, stateGen, statusTxt, events, hbObj, marker,
                   lockGenCtr, ownerLock, stopFile, configVars, instances>>
    /\ IF restartLock.exists /\ restartLock.generation = loc[p].existing_gen
       THEN /\ restartLock' = NoLock
            /\ Goto(p, "lock_recreate")
            /\ UNCHANGED <<loc, cas>>
       ELSE /\ restartLock' = restartLock
            /\ Return(p, "orphaned")

\* lines 532-539
LockRecreate(p) ==
    /\ pc[p] = "lock_recreate"
    /\ UNCHANGED <<stateObj, stateGen, statusTxt, events, hbObj, marker,
                   ownerLock, stopFile, configVars, instances>>
    /\ IF ~restartLock.exists
       THEN /\ lockGenCtr < MaxLockGen
            /\ restartLock' = NewLock(p)
            /\ lockGenCtr' = lockGenCtr + 1
            /\ loc' = [loc EXCEPT ![p].lock_gen = lockGenCtr + 1]
            /\ Goto(p, "owner_read")
            /\ cas' = cas
       ELSE /\ UNCHANGED <<restartLock, lockGenCtr>>
            /\ Return(p, "orphaned")

\* step 3, line 734
RestartingCall(p) ==
    /\ Goto(p, "cas_read")
    /\ cas' = CasCall(p, "RESTARTING", "reconciler_restart", "reconciler",
                      "create_vm")

\* _clear_owner_lock_preconditioned, lines 553-564
OwnerRead(p) ==
    /\ pc[p] = "owner_read"
    /\ UNCHANGED <<storeVars, configVars, instances>>
    /\ \E failed \in Failures :
          IF failed \/ ~ownerLock.exists
          THEN RestartingCall(p) /\ loc' = loc
          ELSE /\ loc' = [loc EXCEPT ![p].owner = ownerLock]
               /\ cas' = cas
               /\ IF ownerLock.instance # "" /\ ownerLock.zone # ""
                  THEN Goto(p, "owner_vm")
                  ELSE Goto(p, "owner_delete")

\* lines 565-567
OwnerVm(p) ==
    /\ pc[p] = "owner_vm"
    /\ UNCHANGED <<storeVars, configVars, instances>>
    /\ \E failed \in Failures :
          IF VmExists(loc[p].owner.instance, loc[p].owner.zone, failed)
          THEN Rollback(p, "Owner lock clearance failed")
          ELSE /\ Goto(p, "owner_delete")
               /\ loc' = [loc EXCEPT ![p].owner_alive = "no"]
               /\ cas' = cas

\* lines 570-575: delete(if_generation_match=gen)
OwnerDelete(p) ==
    /\ pc[p] = "owner_delete"
    /\ UNCHANGED <<stateObj, stateGen, statusTxt, events, hbObj, marker,
                   restartLock, lockGenCtr, stopFile, configVars, instances>>
    /\ IF ownerLock.exists /\ ownerLock.generation = loc[p].owner.generation
       THEN /\ ownerLock' = NoOwner
            /\ RestartingCall(p)
            /\ loc' = loc
       ELSE /\ ownerLock' = ownerLock
            /\ Rollback(p, "Owner lock clearance failed")

\* lines 735-752 and _create_vm_from_config: one zone per step; an insert of
\* a name that exists in the zone fails, any insert may fail
CreateVm(p) ==
    /\ pc[p] = "create_vm"
    /\ UNCHANGED <<storeVars, DRY_RUN, storeFaults, scan, driftDisabled,
                   restartEnabled, restartConfig, manifest>>
    /\ IF cas[p].result = "rejected"
       THEN Rollback(p, "CAS RESTARTING failed") /\ instances' = instances
       ELSE LET zones == loc[p].restart_config.fallback_zones
                zone == zones[loc[p].zone_idx]
                name == VmName(NewAttempt(p))
            IN  \E created \in BOOLEAN :
                   IF created /\ <<name, zone>> \notin instances
                   THEN /\ instances' = instances \cup {<<name, zone>>}
                        /\ loc' = [loc EXCEPT ![p].vm_name = name]
                        /\ cas' = [cas EXCEPT ![p] = CasIdle]
                        /\ Goto(p, "release")
                   ELSE /\ instances' = instances
                        /\ IF loc[p].zone_idx < Len(zones)
                           THEN /\ loc' = [loc EXCEPT ![p].zone_idx = @ + 1]
                                /\ cas' = [cas EXCEPT ![p] = CasIdle]
                                /\ Goto(p, "create_vm")
                           ELSE Rollback(p, "All zones exhausted")
    /\ inserted' = inserted + Cardinality(instances' \ instances)

\* lines 756 and 777: delete(if_generation_match=lock_gen)
ReleaseMatches(p) ==
    restartLock.exists /\ restartLock.generation = loc[p].lock_gen

ReleaseForgotten(p) ==
    /\ pc[p] = "release"
    /\ Return(p, "restarted")
    /\ UNCHANGED <<storeVars, configVars, instances>>

\* lines 754-758
Release(p) ==
    /\ pc[p] = "release"
    /\ UNCHANGED <<stateObj, stateGen, statusTxt, events, hbObj, marker,
                   lockGenCtr, ownerLock, stopFile, configVars, instances>>
    /\ IF ReleaseMatches(p)
       THEN restartLock' = NoLock /\ Return(p, "restarted")
       ELSE restartLock' = restartLock /\ Goto(p, "release_uncond")
                                       /\ UNCHANGED <<loc, cas>>

\* line 758: the unconditional delete; NotFound reaches the except of line 767
ReleaseUncond(p) ==
    /\ pc[p] = "release_uncond"
    /\ UNCHANGED <<stateObj, stateGen, statusTxt, events, hbObj, marker,
                   lockGenCtr, ownerLock, stopFile, configVars, instances>>
    /\ IF restartLock.exists
       THEN restartLock' = NoLock /\ Return(p, "restarted")
       ELSE restartLock' = restartLock /\ Rollback(p, "NotFound")

\* lines 775-778
RollbackRelease(p) ==
    /\ pc[p] = "rb_release"
    /\ UNCHANGED <<stateObj, stateGen, statusTxt, events, hbObj, marker,
                   lockGenCtr, ownerLock, stopFile, configVars, instances>>
    /\ IF ReleaseMatches(p)
       THEN restartLock' = NoLock /\ Return(p, "restart_failed")
       ELSE restartLock' = restartLock /\ Goto(p, "rb_release_uncond")
                                       /\ UNCHANGED <<loc, cas>>

\* lines 779-785
RollbackReleaseUncond(p) ==
    /\ pc[p] = "rb_release_uncond"
    /\ restartLock' = NoLock
    /\ Return(p, "restart_failed")
    /\ UNCHANGED <<stateObj, stateGen, statusTxt, events, hbObj, marker,
                   lockGenCtr, ownerLock, stopFile, configVars, instances>>

\* ------------------------------------------------- the environment
\* TickSec seconds pass
Advance ==
    /\ stateObj' = [stateObj EXCEPT !.updated_age = Older(@, StateLim(stateObj))]
    /\ hbObj' = [hbObj EXCEPT !.age = Older(@, HbLim)]
    /\ marker' = [marker EXCEPT !.age = IF marker.exists THEN Older(@, MarkerLim) ELSE @]
    /\ restartLock' = [restartLock EXCEPT
                         !.age = IF restartLock.exists THEN Older(@, LockLim) ELSE @]
    /\ loc' = [p \in Procs |->
                 [loc[p] EXCEPT
                    !.state_data.updated_age = Older(@, StateLim(loc[p].state_data)),
                    !.heartbeat_data.age =
                        IF loc[p].heartbeat_data.exists THEN Older(@, HbLim) ELSE @]]
    /\ UNCHANGED <<stateGen, statusTxt, events, lockGenCtr, ownerLock, stopFile,
                   configVars, instances, pc, cas>>

\* a live worker writes heartbeat.json with a new timestamp
Heartbeat ==
    /\ instances # {}
    /\ ~hbObj.exists \/ hbObj.age > 0
    /\ hbObj.timestamp < MaxHb
    /\ hbObj' = [exists |-> TRUE, timestamp |-> hbObj.timestamp + 1, age |-> 0]
    /\ UNCHANGED <<stateObj, stateGen, statusTxt, events, marker, restartLock,
                   lockGenCtr, ownerLock, stopFile, configVars, instances, pc,
                   loc, cas>>

\* an instance is preempted or deleted
VmGone ==
    /\ \E i \in instances : instances' = instances \ {i}
    /\ UNCHANGED <<storeVars, configVars, pc, loc, cas>>

\* the operator forbids the restart of the run: .stop is created
OperatorStop ==
    /\ ~stopFile
    /\ stopFile' = TRUE
    /\ UNCHANGED <<stateObj, stateGen, statusTxt, events, hbObj, marker,
                   restartLock, lockGenCtr, ownerLock, configVars, instances, pc,
                   loc, cas>>

\* the instance that owns the run writes .owner.lock again
OwnerRewrite ==
    /\ ownerLock.exists
    /\ <<ownerLock.instance, ownerLock.zone>> \in instances
    /\ ownerLock.generation < MaxOwnerGen
    /\ ownerLock' = [ownerLock EXCEPT !.generation = @ + 1]
    /\ UNCHANGED <<stateObj, stateGen, statusTxt, events, hbObj, marker,
                   restartLock, lockGenCtr, stopFile, configVars, instances, pc,
                   loc, cas>>

\* the worker or the operator gets a transition accepted: the net effect of
\* a compare-and-swap of theirs that won
ExternalEdges ==
    {<<"RUNNING", "COMPLETE", "vm">>, <<"RUNNING", "PREEMPTED", "vm">>,
     <<"RESTARTING", "RUNNING", "vm">>, <<"ORPHANED", "STOPPED", "operator">>}

ExternalWrite ==
    /\ stateObj.exists
    /\ stateGen < MaxGen
    /\ \E e \in ExternalEdges :
          /\ e[1] = stateObj.state
          /\ e[3] = "vm" => instances # {}
          /\ CanTransition(e[1], e[2], e[3])
          /\ stateObj' = NewData(WriterView(stateObj), e[2], "external", e[3])
          /\ statusTxt' = StatusCompat(e[2])
    /\ stateGen' = stateGen + 1
    /\ UNCHANGED <<events, hbObj, marker, restartLock, lockGenCtr, ownerLock,
                   stopFile, configVars, instances, pc, loc, cas>>

\* ------------------------------------------------------------- Init
\* a history of n transitions that ends in state
PrevOf(state) ==
    CASE state = "RUNNING" -> "RESTARTING"
      [] state = "RESTARTING" -> "ORPHANED"
      [] OTHER -> "RUNNING"

WriterOf(state) ==
    IF state \in {"ORPHANED", "RESTARTING"} THEN "reconciler" ELSE "vm"

\* the last n transitions of a run that was orphaned and restarted over and
\* over and is now in state
RECURSIVE LongHistory(_, _)
LongHistory(state, n) ==
    IF n = 0 THEN <<>>
    ELSE Append(LongHistory(PrevOf(state), n - 1),
                [from |-> PrevOf(state), to |-> state, by |-> WriterOf(state),
                 reason |-> "external"])

\* a state.json as the worker keeps it, n transitions into the run
RecordAt(state, with_instance, attempt, n) ==
    [exists |-> TRUE, state |-> state,
     prev_state |-> PrevOf(state),
     state_version |-> n,
     owner_id |-> IF with_instance THEN WorkerVm ELSE "",
     instance_name |-> IF with_instance THEN WorkerVm ELSE "",
     zone |-> IF with_instance THEN WorkerZone ELSE "",
     attempt |-> attempt, updated_age |-> 0,
     updated_by |-> WriterOf(state),
     reason |-> "external",
     history |-> LongHistory(state, n)]

Record(state, with_instance, attempt) == RecordAt(state, with_instance, attempt, 1)

\* a record whose history is one entry short of the limit
InitHistoryLen == HISTORY_MAX - 1
LongRecord(state) == RecordAt(state, TRUE, 0, InitHistoryLen)

Config ==
    [exists |-> TRUE, auto_restart_max |-> AUTO_RESTART_MAX,
     fallback_zones |-> <<"us-east1-c", "us-east1-d">>]

InitWith(dry, records, heartbeats, markers, locks, owners, stops, enabled, configs, manifests, vms) ==
    /\ DRY_RUN \in dry
    /\ storeFaults = TRUE
    /\ scan = ScanIdle
    /\ inserted = 0
    /\ stateObj \in records
    /\ stateGen = IF stateObj.exists THEN 1 ELSE 0
    /\ statusTxt = IF stateObj.exists THEN StatusCompat(stateObj.state) ELSE "ABSENT"
    /\ events = 0
    /\ hbObj \in heartbeats
    /\ marker \in markers
    /\ restartLock \in locks
    /\ lockGenCtr = restartLock.generation
    /\ ownerLock \in owners
    /\ stopFile \in stops
    /\ driftDisabled = FALSE
    /\ restartEnabled \in enabled
    /\ restartConfig \in configs
    /\ manifest \in manifests
    /\ instances \in vms
    /\ pc = [p \in Procs |-> "idle"]
    /\ loc = [p \in Procs |-> LocInit]
    /\ cas = [p \in Procs |-> CasIdle]

StaleHeartbeat == [exists |-> TRUE, timestamp |-> 1, age |-> HEARTBEAT_STALE_SEC]
FreshHeartbeat == [exists |-> TRUE, timestamp |-> 1, age |-> 0]
LaterHeartbeat == [exists |-> TRUE, timestamp |-> 2, age |-> HEARTBEAT_STALE_SEC]
OldMarker == [exists |-> TRUE, age |-> TickSec, heartbeat_epoch_at_observation |-> 1]
WorkerOwner ==
    [exists |-> TRUE, instance |-> WorkerVm, zone |-> WorkerZone, generation |-> 1]
\* a restart.lock whose invocation died before releasing it
DeadLock == [exists |-> TRUE, generation |-> 1, age |-> 0, attempt |-> 1]
\* the replacement of an earlier restart has taken the run over
ReplacementOwner ==
    [exists |-> TRUE, instance |-> VmName(1), zone |-> WorkerZone, generation |-> 1]

\* an orphaned run whose restart is due: the heartbeat is stale, the marker
\* is old and the worker's instance is gone
InitRestart ==
    InitWith({FALSE}, {Record("ORPHANED", TRUE, 0)},
             {StaleHeartbeat, LaterHeartbeat, FreshHeartbeat}, {OldMarker},
             {NoLock}, {NoOwner, WorkerOwner}, {FALSE}, {TRUE}, {Config},
             {NoManifest}, {{}})

\* runs in the states the stale detection meets, restart switched off
InitDetect ==
    InitWith(BOOLEAN,
             {NoState, Record("RUNNING", TRUE, 0), Record("RUNNING", FALSE, 0),
              Record("RESTARTING", TRUE, 1), Record("COMPLETE", TRUE, 0)},
             {StaleHeartbeat, FreshHeartbeat}, {NoMarker, OldMarker}, {NoLock},
             {NoOwner}, {FALSE}, {FALSE}, {Config}, {NoManifest},
             {{}, {<<WorkerVm, WorkerZone>>}})

\* the same run when the replacement of an earlier restart is alive and owns
\* it, while state.json still names the first worker
InitOwnerAlive ==
    InitWith({FALSE}, {Record("ORPHANED", TRUE, 0)}, {StaleHeartbeat}, {OldMarker},
             {NoLock}, {ReplacementOwner}, {FALSE}, {TRUE}, {Config},
             {NoManifest}, {{<<VmName(1), WorkerZone>>}})

Init == InitRestart

WriterStep(p) ==
    \/ WriteStateCall(p) \/ WriteStateDone(p)
    \/ CasRead(p) \/ CasUpload(p) \/ CasStatus(p)

TickStep(p) ==
    \/ CasRead(p) \/ CasUpload(p) \/ CasStatus(p)
    \/ ReconcileStart(p) \/ ReadState(p) \/ ReadHeartbeat(p)
    \/ DriftStatus(p) \/ DriftWrite(p) \/ Decide(p)
    \/ StuckVm(p) \/ StuckUnlock(p)
    \/ FreshMarker(p) \/ FreshDelete(p)
    \/ MarkerRead(p) \/ MarkerWrite(p) \/ MarkerReset(p)
    \/ ManifestRead(p) \/ VmCheck(p) \/ OrphMarker(p)
    \/ TryRestartChecks(p) \/ StopCheck(p)
    \/ LockCreate(p) \/ LockInspect(p) \/ LockReclaim(p) \/ LockRecreate(p)
    \/ OwnerRead(p) \/ OwnerVm(p) \/ OwnerDelete(p)
    \/ CreateVm(p)
    \/ Release(p) \/ ReleaseUncond(p)
    \/ RollbackRelease(p) \/ RollbackReleaseUncond(p)

Next ==
    \/ \E p \in Procs : TickStep(p)
    \/ Advance \/ VmGone

\* two reconciler invocations that overlap, the clock and the loss of instances
Spec == Init /\ [][Next]_vars

\* concurrent calls of _write_state_cas alone, for every target and actor
InitWriter ==
    InitWith(BOOLEAN,
             {NoState, LongRecord("RUNNING"), LongRecord("COMPLETE")},
             {NoHeartbeat}, {NoMarker}, {NoLock}, {NoOwner}, {FALSE}, {FALSE},
             {NoConfig}, {NoManifest}, {{}})

NextWriter == \E p \in Procs : WriterStep(p)

SpecWriter == InitWriter /\ [][NextWriter]_vars

\* the scheduler starts an invocation when no other one is under way
ReconcileAlone(p) ==
    /\ \A q \in Procs \ {p} : pc[q] \in {"idle", "done"}
    /\ ReconcileStart(p)

DetectStep(p) ==
    \/ CasRead(p) \/ CasUpload(p) \/ CasStatus(p)
    \/ ReconcileAlone(p) \/ ReadState(p) \/ ReadHeartbeat(p)
    \/ DriftStatus(p) \/ DriftWrite(p) \/ Decide(p)
    \/ StuckVm(p) \/ StuckUnlock(p)
    \/ FreshMarker(p) \/ FreshDelete(p)
    \/ MarkerRead(p) \/ MarkerWrite(p) \/ MarkerReset(p)
    \/ ManifestRead(p) \/ VmCheck(p) \/ OrphMarker(p)
    \/ TryRestartChecks(p)

NextDetect ==
    \/ \E p \in Procs : DetectStep(p)
    \/ Advance \/ Heartbeat \/ VmGone \/ ExternalWrite

SpecDetect == InitDetect /\ [][NextDetect]_vars

\* an orphaned run and what _try_restart may find: the feature flag, the
\* run's restart_config, its attempt count, .stop and a restart.lock that a
\* dead invocation left
InitExecutor ==
    InitWith({FALSE},
             {Record("ORPHANED", TRUE, 0), Record("ORPHANED", TRUE, AUTO_RESTART_MAX)},
             {StaleHeartbeat, LaterHeartbeat, FreshHeartbeat}, {OldMarker},
             {NoLock, DeadLock}, {NoOwner, WorkerOwner}, BOOLEAN, BOOLEAN,
             {Config, NoConfig},
             {NoManifest}, {{}})

\* with one invocation at a time nobody takes an invocation's lock away, so
\* the fallback deletes of lines 758 and 780 are never reached
RestartStep(p) ==
    \/ DetectStep(p) \/ StopCheck(p)
    \/ LockCreate(p) \/ LockInspect(p) \/ LockReclaim(p) \/ LockRecreate(p)
    \/ OwnerRead(p) \/ OwnerVm(p) \/ OwnerDelete(p)
    \/ CreateVm(p)
    \/ Release(p) \/ RollbackRelease(p)

NextRestart ==
    \/ \E p \in Procs : RestartStep(p)
    \/ Advance \/ VmGone \/ OperatorStop \/ OwnerRewrite

\* invocations one after the other, the clock, the loss of instances, the
\* operator and the run's owner
SpecRestart == (InitExecutor \/ InitOwnerAlive) /\ [][NextRestart]_vars

\* the orphaned run of InitRestart with the restart.lock of an invocation
\* that died before releasing it
InitContest ==
    InitWith({FALSE}, {Record("ORPHANED", TRUE, 0)},
             {StaleHeartbeat, LaterHeartbeat, FreshHeartbeat}, {OldMarker},
             {DeadLock}, {NoOwner, WorkerOwner}, {FALSE}, {TRUE}, {Config},
             {NoManifest}, {{}})

\* two overlapping invocations that find the lock of a third
SpecContest == InitContest /\ [][Next]_vars

\* ------------------------------------------------- can_transition alone
\* the actors a caller may name: the valid ones, an unknown one, the empty one
AnyActors == VALID_ACTORS \cup {"unknown", ""}

\* a call of the writer for any target and any actor, one call at a time
TransitionCall(p) ==
    /\ pc[p] = "idle"
    /\ \A q \in Procs \ {p} : pc[q] = "idle"
    /\ \E new_state \in States, actor \in AnyActors :
          cas' = CasCall(p, new_state, "external", actor, "call_done")
    /\ pc' = [pc EXCEPT ![p] = "cas_read"]
    /\ loc' = [loc EXCEPT ![p] = LocInit]
    /\ UNCHANGED <<storeVars, configVars, instances>>

\* a run in every state, and a run without state.json
InitTable ==
    InitWith({FALSE}, {NoState} \cup {Record(s, TRUE, 0) : s \in States},
             {NoHeartbeat}, {NoMarker}, {NoLock}, {NoOwner}, {FALSE}, {FALSE},
             {NoConfig}, {NoManifest}, {{}})

TableStep(p) ==
    \/ TransitionCall(p) \/ WriteStateDone(p)
    \/ CasRead(p) \/ CasUpload(p) \/ CasStatus(p)

NextTable == \E p \in Procs : TableStep(p)

\* every from-state, target and actor put to can_transition by the writer
SpecTable == InitTable /\ [][NextTable]_vars

\* ------------------------------------------------------ reconcile_all
\* everything but the scan: the run's objects, the instances, the ticks
runVars == <<storeVars, DRY_RUN, storeFaults, inserted, driftDisabled, restartEnabled, restartConfig, manifest, instances, pc, loc, cas>>

\* what _reconcile_run gives for a run: None, an action, or an exception
RunResults == {"none", "orphaned", "stale_first_observation", "raised"}

\* lines 819-822: the listing of runs/; an error of the listing is not caught
ScanStart ==
    /\ scan.phase \in {"idle", "200", "500"}
    /\ \E failed \in Failures, listed \in SUBSET RunIds :
          scan' = IF failed
                  THEN [ScanIdle EXCEPT !.phase = "500"]
                  ELSE [ScanIdle EXCEPT
                          !.phase = "scanning", !.listed = listed,
                          !.todo = SelectSeq(RunOrder, LAMBDA r : r \in listed)]
    /\ UNCHANGED runVars

ScanRunAborting ==
    /\ scan.phase = "scanning"
    /\ scan.todo # <<>>
    /\ LET run_id == Head(scan.todo)
       IN  \E action \in RunResults :
              scan' = [scan EXCEPT
                         !.todo = Tail(@),
                         !.calls[run_id] = @ + 1,
                         !.result[run_id] = action,
                         !.phase = IF action = "raised" THEN "500" ELSE @,
                         !.actions[run_id] =
                             IF action = "none" THEN @ ELSE action]
    /\ UNCHANGED runVars

\* lines 825-831: one pass of the loop
ScanRun ==
    /\ scan.phase = "scanning"
    /\ scan.todo # <<>>
    /\ LET run_id == Head(scan.todo)
       IN  \E action \in RunResults :
              scan' = [scan EXCEPT
                         !.todo = Tail(@),
                         !.calls[run_id] = @ + 1,
                         !.result[run_id] = action,
                         !.actions[run_id] =
                             IF action \in {"none", "raised"} THEN @ ELSE action]
    /\ UNCHANGED runVars

\* lines 833-846: the loop is over, reconcile_http answers 200 with actions
ScanDone ==
    /\ scan.phase = "scanning"
    /\ scan.todo = <<>>
    /\ scan' = [scan EXCEPT !.phase = "200"]
    /\ UNCHANGED runVars

InitScan ==
    InitWith({FALSE}, {NoState}, {NoHeartbeat}, {NoMarker}, {NoLock}, {NoOwner},
             {FALSE}, {FALSE}, {NoConfig}, {NoManifest}, {{}})

NextScan == ScanStart \/ ScanRun \/ ScanDone

\* scans of the bucket, one after the other
SpecScan == InitScan /\ [][NextScan]_vars
\* the scheduler calls the function again: the next invocation
NextInvocation(p) ==
    /\ pc[p] = "done"
    /\ pc' = [pc EXCEPT ![p] = "idle"]
    /\ loc' = [loc EXCEPT ![p] = LocInit]
    /\ cas' = [cas EXCEPT ![p] = CasIdle]
    /\ UNCHANGED <<storeVars, configVars, instances>>

\* the invocations of the schedule, one after the other
Scheduled == {"r1"}

\* a run that is orphaned or about to be found orphaned, preempted or
\* complete, its status.txt in
\* step or left behind by a late writer, with or without the restart.lock of
\* an invocation that died; the store and the adapter answer every call
InitLiveWith(configs) ==
    /\ DRY_RUN = FALSE
    /\ storeFaults = FALSE
    /\ scan = ScanIdle
    /\ inserted = 0
    /\ stateObj \in {Record("ORPHANED", TRUE, 0), Record("RUNNING", TRUE, 0),
                     Record("RUNNING", FALSE, 0), Record("PREEMPTED", TRUE, 0),
                     Record("COMPLETE", TRUE, 0)}
    /\ stateGen = 1
    /\ statusTxt \in {StatusCompat(stateObj.state), "RUNNING"}
    /\ events = 0
    /\ hbObj \in {StaleHeartbeat, LaterHeartbeat, FreshHeartbeat}
    /\ marker = OldMarker
    /\ restartLock \in {NoLock, DeadLock}
    /\ lockGenCtr = restartLock.generation
    /\ ownerLock \in {NoOwner, WorkerOwner}
    /\ stopFile = FALSE
    /\ driftDisabled = FALSE
    /\ restartEnabled = TRUE
    /\ restartConfig \in configs
    /\ manifest = NoManifest
    /\ instances = {}
    /\ pc = [p \in Procs |-> "idle"]
    /\ loc = [p \in Procs |-> LocInit]
    /\ cas = [p \in Procs |-> CasIdle]

InitLive == InitLiveWith({Config})

\* the same runs when restart_config.json allows one restart
ConfigOnce == [Config EXCEPT !.auto_restart_max = 1]

InitBudget == InitLiveWith({ConfigOnce})

LiveStep(p) == RestartStep(p) \/ NextInvocation(p)

Ticks == \E p \in Scheduled : LiveStep(p)

NextLive ==
    \/ Ticks
    \/ Advance \/ VmGone \/ ExternalWrite

\* the schedule never stops and time passes: an invocation that can take a
\* step takes it, and the clock moves on
Fairness == WF_vars(Ticks) /\ WF_vars(Advance)

SpecLive == InitLive /\ [][NextLive]_vars /\ Fairness

\* the scheduled invocations on a run with a budget of one restart
SpecBudget == InitBudget /\ [][NextLive]_vars

\* runs whose status.txt agrees with state.json, has drifted from it or is
\* missing, with and without .drift_repair_disabled; store calls succeed
InitDrift ==
    /\ DRY_RUN = FALSE
    /\ storeFaults = FALSE
    /\ scan = ScanIdle
    /\ inserted = 0
    /\ stateObj \in {Record("RUNNING", TRUE, 0), Record("RUNNING", FALSE, 0),
                     Record("ORPHANED", TRUE, 0), Record("RESTARTING", TRUE, 1)}
    /\ stateGen = 1
    /\ statusTxt \in {"RUNNING", "PREEMPTED", "ABSENT"}
    /\ events = 0
    /\ hbObj \in {StaleHeartbeat, FreshHeartbeat}
    /\ marker \in {NoMarker, OldMarker}
    /\ restartLock = NoLock
    /\ lockGenCtr = 0
    /\ ownerLock = NoOwner
    /\ stopFile = FALSE
    /\ driftDisabled \in BOOLEAN
    /\ restartEnabled = FALSE
    /\ restartConfig = Config
    /\ manifest = NoManifest
    /\ instances \in {{}, {<<WorkerVm, WorkerZone>>}}
    /\ pc = [p \in Procs |-> "idle"]
    /\ loc = [p \in Procs |-> LocInit]
    /\ cas = [p \in Procs |-> CasIdle]

\* the ticks of SpecDetect on these runs
SpecDrift == InitDrift /\ [][NextDetect]_vars

\* ------------------------------------------------------------ claims
\* the state a record holds, None when there is no record
StateOf(rec) == IF rec.exists THEN rec.state ELSE Null

\* a call of the writer that is between its read and its return
InCall(p) == pc[p] \in {"cas_read", "cas_upload"}

\* p's call left the writer's loop in this step without having written
CallEnds(p) == InCall(p) /\ pc'[p] \notin {"cas_read", "cas_upload", "cas_status"}

\* C1 (as the code has it): once state.json holds a terminal state no step of
\* any writer call changes state.json; a call that ends while the state is
\* terminal is rejected in live mode, and in dry-run mode it returns accepted
\* without having read or written anything.
TerminalPrecedence ==
    [][IsTerminal(stateObj.state) =>
         /\ stateObj' = stateObj
         /\ stateGen' = stateGen
         /\ \A p \in Procs :
              /\ InCall(p) => pc'[p] # "cas_status"
              /\ CallEnds(p) =>
                   cas'[p].result = IF DRY_RUN THEN "accepted" ELSE "rejected"]_vars

\* C1 (as the spec states it): once state.json holds a terminal state no
\* writer call changes it and every such call is rejected.
TerminalCallRejected ==
    [][IsTerminal(stateObj.state) =>
         /\ stateObj' = stateObj
         /\ stateGen' = stateGen
         /\ \A p \in Procs : CallEnds(p) => cas'[p].result = "rejected"]_vars

\* C1's case: a terminal state was written after a live call had read the
\* record, and that call's upload has failed its precondition
TerminalRaceSeen ==
    /\ ~DRY_RUN
    /\ IsTerminal(stateObj.state)
    /\ \E p \in Procs :
         /\ pc[p] = "cas_read"
         /\ cas[p].attempt > 0
         /\ ~IsTerminal(cas[p].current.state)

\* C2: every accepted write of state.json follows an edge of the transition
\* table from the state the record held immediately before the write, the
\* edge's actor guard, if any, contains the writer, and the new record names
\* that state as its prev_state.
AcceptedWritesFollowEdges ==
    [][stateGen' # stateGen =>
         /\ stateObj'.state \in Edges(StateOf(stateObj))
         /\ Guarded(StateOf(stateObj), stateObj'.state) =>
              stateObj'.updated_by \in ActorGuards(StateOf(stateObj), stateObj'.state)
         /\ stateObj'.updated_by \in VALID_ACTORS
         /\ stateObj'.prev_state = StateOf(stateObj)]_vars

\* C2's case: a call whose first upload lost a race re-read the record and got
\* a write accepted from the state it found then
AcceptedAfterReread ==
    \E p \in Procs :
      /\ pc[p] = "cas_status"
      /\ cas[p].attempt > 0
      /\ stateObj.prev_state = cas[p].current.state

\* C3: an upload is accepted exactly when the generation the call read is still
\* the generation of state.json, so of two calls that read the same generation
\* one is accepted; the other is sent back to re-read, at most CAS_ATTEMPTS
\* uploads per call, and is rejected when they are used up.
OneWinnerPerGeneration ==
    [][\A p \in Procs :
         pc[p] = "cas_upload" /\ pc'[p] # "cas_upload" =>
           /\ cas[p].attempt < CAS_ATTEMPTS
           /\ IF cas[p].generation = stateGen
              THEN /\ pc'[p] = "cas_status"
                   /\ stateGen' = stateGen + 1
                   /\ stateObj'.prev_state = cas[p].current.state
              ELSE /\ stateObj' = stateObj
                   /\ stateGen' = stateGen
                   /\ IF cas[p].attempt + 1 < CAS_ATTEMPTS
                      THEN pc'[p] = "cas_read" /\ cas'[p].attempt = cas[p].attempt + 1
                      ELSE pc'[p] = cas[p].ret /\ cas'[p].result = "rejected"]_vars

\* C3's case: two calls read the same generation for the same edge, one was
\* accepted and the other is about to re-read
RaceLost ==
    \E p, q \in Procs :
      /\ p # q
      /\ pc[p] = "cas_status"
      /\ pc[q] = "cas_read"
      /\ cas[q].attempt = 1
      /\ cas[q].generation = cas[p].generation
      /\ cas[q].new_state = cas[p].new_state
      /\ stateGen = cas[p].generation + 1

\* C4: every accepted write raises state_version, leaves at most HISTORY_MAX
\* history entries, the last being the transition just written, and keeps the
\* newest of the earlier entries in their order.
VersionAndHistory ==
    [][stateGen' # stateGen =>
         LET old == IF stateObj.exists THEN stateObj.history ELSE <<>>
             new == stateObj'.history
             kept == Len(new) - 1
         IN  /\ stateObj'.state_version > stateObj.state_version
             /\ Len(new) <= HISTORY_MAX
             /\ Len(new) >= 1
             /\ new[Len(new)].from = StateOf(stateObj)
             /\ new[Len(new)].to = stateObj'.state
             /\ new[Len(new)].by = stateObj'.updated_by
             /\ kept = IF Len(old) < HISTORY_MAX THEN Len(old) ELSE HISTORY_MAX - 1
             /\ \A i \in 1..kept : new[i] = old[Len(old) - kept + i]]_vars

\* C4's case: a write on a full history dropped the oldest entry
HistoryTrimmed ==
    /\ stateObj.exists
    /\ Len(stateObj.history) = HISTORY_MAX
    /\ stateObj.state_version > HISTORY_MAX

\* p takes a step
Moved(p) == pc'[p] # pc[p]

\* the restart.lock of the step's first state is still there after it
LockKept == restartLock'.exists /\ restartLock'.generation = restartLock.generation

\* p created the restart.lock that exists
Holder(p) == restartLock.exists /\ loc[p].lock_gen = restartLock.generation

\* C5: while a restart.lock exists that has not outlived its ttl_sec, no step
\* of an invocation other than the one that created it deletes or replaces
\* the lock or gets a transition to RESTARTING accepted.
SingleRestartWriter ==
    [][restartLock.exists /\ ~LockExpired(restartLock) =>
         \A q \in Procs :
           Moved(q) /\ ~Holder(q) =>
             /\ LockKept
             /\ ~(pc'[q] = "cas_status" /\ cas[q].new_state = "RESTARTING")]_vars

\* C6: every delete of restart.lock names the generation the invocation
\* created or observed, every delete of .owner.lock names the generation it
\* read, every creation of restart.lock finds no lock, and every write of
\* state.json names the generation the writer read.
EveryMutationPreconditioned ==
    [][\A p \in Procs :
         Moved(p) =>
           /\ restartLock.exists /\ ~LockKept =>
                restartLock.generation \in {loc[p].lock_gen, loc[p].existing_gen}
           /\ ownerLock.exists /\ ~ownerLock'.exists =>
                ownerLock.generation = loc[p].owner.generation
           /\ stateGen' # stateGen => cas[p].generation = stateGen]_vars

\* p's writer call asks for ORPHANED on the stale-heartbeat path
OrphanRequest(p) ==
    /\ pc[p] \in {"cas_read", "cas_upload", "cas_status"}
    /\ cas[p].new_state = "ORPHANED"
    /\ cas[p].reason \in {"stale_heartbeat_vm_gone", "legacy_bootstrap_orphaned"}

\* C7: a tick asks for ORPHANED on the stale-heartbeat path only if the
\* heartbeat it read exists and is at least HEARTBEAT_STALE_SEC old, the marker
\* it read exists, is at least STALE_MARKER_MIN_AGE_SEC old and records the
\* timestamp of that heartbeat, and its instance check reported no live VM.
TwoStageBeforeOrphan ==
    \A p \in Procs :
      OrphanRequest(p) =>
        /\ loc[p].heartbeat_data.exists
        /\ loc[p].heartbeat_data.age >= HEARTBEAT_STALE_SEC
        /\ loc[p].stale_marker.exists
        /\ loc[p].stale_marker.age >= STALE_MARKER_MIN_AGE_SEC
        /\ loc[p].stale_marker.heartbeat_epoch_at_observation =
             loc[p].heartbeat_data.timestamp
        /\ loc[p].vm_alive = "no"

\* C7's case: the second observation of a stale heartbeat got ORPHANED accepted
OrphanedOnSecondObservation ==
    \E p \in Procs :
      /\ ~DRY_RUN
      /\ OrphanRequest(p)
      /\ pc[p] = "cas_status"
      /\ stateObj.state = "ORPHANED"

\* C8: no tick in which an instance-adapter call failed with an error other
\* than not-found gets a transition to ORPHANED accepted.
NoOrphanOnAdapterError ==
    \A p \in Procs :
      pc[p] = "cas_status" /\ cas[p].new_state = "ORPHANED" => ~loc[p].adapter_failed

\* C9: a tick that starts when state.json is terminal changes no object of
\* the run, creates no instance and hands reconcile_all no action (it returns
\* None or leaves with an exception).
TerminalRunsUntouched ==
    [][\A p \in Procs :
         Moved(p) /\ loc[p].after_terminal =>
           /\ UNCHANGED <<storeVars, instances>>
           /\ pc'[p] = "done" => loc'[p].action \in {"none", "raised"}]_vars

\* p leaves _try_restart, and with it the tick, holding a lock generation
RestartReturns(p) == pc[p] # "done" /\ pc'[p] = "done" /\ loc[p].lock_gen > 0

\* C10: when _try_restart returns after having acquired restart.lock, the
\* action is restarted or restart_failed and the lock this invocation created
\* does not exist.
LockReleasedOnReturn ==
    [][\A p \in Procs :
         RestartReturns(p) =>
           /\ loc'[p].action \in {"restarted", "restart_failed"}
           /\ ~(restartLock'.exists /\ restartLock'.generation = loc[p].lock_gen)]_vars

\* C10's case: an invocation acquired restart.lock, its restart was rolled
\* back, it has returned and the run has no restart.lock
RolledBackAndReleased ==
    \E p \in Procs :
      /\ pc[p] = "done"
      /\ loc[p].action = "restart_failed"
      /\ ~restartLock.exists
      /\ lockGenCtr > 0

\* the instance that .owner.lock names exists
OwnerInstanceAlive == <<ownerLock.instance, ownerLock.zone>> \in instances

\* p's restart is aborted: the executor has entered its rollback
RestartAborted(p) == pc'[p] = "cas_read" /\ cas'[p].reason = "restart_rollback"

\* C11: an invocation deletes .owner.lock only after its instance check said
\* the instance named in the lock is gone, and only the generation it read; if
\* the named instance is alive when the owner lock is examined, or the lock
\* was rewritten since it was read, the lock stays and the restart is aborted.
OwnerLockGuardsRestart ==
    [][\A p \in Procs :
         Moved(p) =>
           /\ ownerLock.exists /\ ~ownerLock'.exists =>
                /\ loc[p].owner_alive = "no"
                /\ loc[p].owner = ownerLock
           /\ pc[p] = "owner_read" /\ ownerLock.exists /\ OwnerInstanceAlive =>
                ownerLock' = ownerLock /\ pc'[p] = "owner_vm"
           /\ /\ ownerLock.exists
              /\ \/ pc[p] = "owner_vm" /\ OwnerInstanceAlive
                 \/ pc[p] = "owner_delete"
                    /\ ownerLock.generation # loc[p].owner.generation
              => ownerLock' = ownerLock /\ RestartAborted(p)]_vars

\* a precondition of _try_restart fails for what the tick read
Ineligible(p) ==
    \/ ~restartEnabled
    \/ ~loc[p].restart_config.exists
    \/ loc[p].state_data.state \notin {"PREEMPTED", "ORPHANED"}
    \/ loc[p].state_data.attempt >= loc[p].restart_config.auto_restart_max

\* C12: when the feature flag is off, restart_config is absent, the state is
\* neither PREEMPTED nor ORPHANED, the attempts are used up or .stop exists,
\* _try_restart ends at its checks: no object of the store changes, no
\* instance is created, and the tick returns without a restart action.
PreconditionsBlockRestart ==
    [][\A p \in Procs :
         /\ Moved(p)
         /\ \/ pc[p] = "tr_enabled" /\ Ineligible(p)
            \/ pc[p] = "tr_stop" /\ stopFile
         => /\ pc'[p] = "done"
            /\ loc'[p].action \in {"orphaned", "raised"}
            /\ UNCHANGED <<storeVars, instances>>]_vars

\* C12's case: .stop alone kept an eligible run from being restarted
StoppedRunNotRestarted ==
    \E p \in Procs :
      /\ pc[p] = "done"
      /\ loc[p].action = "orphaned"
      /\ stopFile /\ restartEnabled /\ restartConfig.exists
      /\ stateObj.state = "ORPHANED" /\ stateObj.attempt = 0
      /\ ~restartLock.exists /\ lockGenCtr = 0
      /\ instances = {}

\* C13: while .stop exists no transition to RESTARTING by the reconciler is
\* accepted and no replacement instance is created.
StopForbidsRestart ==
    [][stopFile =>
         /\ \A p \in Procs :
              ~(pc[p] = "cas_upload" /\ pc'[p] = "cas_status"
                /\ cas[p].new_state = "RESTARTING")
         /\ instances' \subseteq instances]_vars

\* C14: with DRY_RUN set no step of a tick changes an object of the store or
\* the set of instances, and every call of the state writer returns accepted
\* straight from its first step.
DryRunChangesNothing ==
    [][DRY_RUN =>
         \A p \in Procs :
           Moved(p) =>
             /\ UNCHANGED <<storeVars, instances>>
             /\ pc[p] = "cas_read" =>
                  pc'[p] = cas[p].ret /\ cas'[p].result = "accepted"]_vars

\* C14's case: a dry-run tick went all the way to declaring the run orphaned
\* and the run's objects are as they were
DryRunOrphanLeavesStore ==
    \E p \in Procs :
      /\ DRY_RUN
      /\ pc[p] = "done"
      /\ loc[p].action = "orphaned"
      /\ stateObj.state = "RUNNING"
      /\ stateGen = 1
      /\ marker.exists
      /\ events = 0

\* the states state.json holds or has held, as far as its history tells
HeldStates ==
    {stateObj.state} \cup {stateObj.history[i].from : i \in DOMAIN stateObj.history}
                     \cup {stateObj.history[i].to : i \in DOMAIN stateObj.history}

\* C15 (as the spec states it): whenever status.txt exists and the state of
\* state.json is not RESTARTING, status.txt is the projection of that state.
ProjectionConsistent ==
    statusTxt # "ABSENT" /\ stateObj.exists /\ stateObj.state # "RESTARTING" =>
      statusTxt = StatusCompat(stateObj.state)

\* C15 (as the code has it): status.txt, when it exists, is the projection of
\* the state that state.json holds or of a state it held before.
StatusProjectsHeldState ==
    statusTxt # "ABSENT" =>
      \E held \in HeldStates \ {Null} : statusTxt = StatusCompat(held)

\* C15's case: the status write of an earlier accepted transition landed after
\* that of a later one; no write is under way and status.txt is behind
StatusBehindState ==
    /\ \A p \in Procs : pc[p] = "idle"
    /\ stateObj.exists
    /\ stateObj.state # "RESTARTING"
    /\ statusTxt # "ABSENT"
    /\ statusTxt # StatusCompat(stateObj.state)

\* an invocation of the schedule begins its tick on the run
TickStarts == \E p \in Procs : pc[p] = "rr_state"

\* state.json is no longer written and holds a state other than RESTARTING,
\* and drift repair is not switched off
StateSettled ==
    /\ <>[][stateGen' = stateGen]_stateGen
    /\ <>[](stateObj.state # "RESTARTING" /\ ~driftDisabled)

\* C16: if state.json stops changing in a state other than RESTARTING,
\* .drift_repair_disabled is absent and ticks keep being run, then from some
\* point on status.txt holds status_compat of the state for ever
StatusConverges ==
    ([]<>TickStarts /\ StateSettled)
        => <>[](statusTxt = StatusCompat(stateObj.state))

\* the same for the states a tick does not skip
StatusConvergesWhileOpen ==
    ([]<>TickStarts /\ StateSettled /\ <>[](~IsTerminal(stateObj.state)))
        => <>[](statusTxt = StatusCompat(stateObj.state))

\* restart.lock is older than its ttl and no invocation that is under way
\* holds it: whoever created it is gone
DeadLockExpired ==
    /\ restartLock.exists
    /\ restartLock.age > LOCK_TTL_SEC
    /\ \A p \in Procs : ~Holder(p)

LeaseHeld == \E p \in Procs : Holder(p)

\* C17: the restart.lock of an invocation that died does not block for ever.
\* An acquiring invocation removes an existing lock only when it saw it older
\* than the ttl, by a delete on the generation it saw, and goes on to create
\* its own; and once the lock is older than the ttl, some invocation comes to
\* hold the lease, unless the run stops being an orphan to restart
ExpiredLockReclaimed ==
    /\ [][\A p \in Procs :
            Moved(p) /\ pc[p] = "lock_reclaim" /\ ~restartLock'.exists =>
               /\ restartLock.exists
               /\ restartLock.generation = loc[p].existing_gen
               /\ restartLock.age > LOCK_TTL_SEC
               /\ pc'[p] = "lock_recreate"]_vars
    /\ DeadLockExpired ~> (LeaseHeld \/ stateObj.state # "ORPHANED")

\* an invocation holds the lease it created after deleting the dead one
DeadLockReplaced ==
    \E p \in Procs :
       /\ Holder(p)
       /\ loc[p].existing_gen = DeadLock.generation
       /\ restartLock.generation > DeadLock.generation

\* where an invocation stands inside _acquire_restart_lock_cas
AcquirePcs == {"lock_create", "lock_inspect", "lock_reclaim", "lock_recreate"}

\* p leaves _acquire_restart_lock_cas with a generation: it has the lease
Acquires(p) == pc[p] \in AcquirePcs /\ pc'[p] = "owner_read"

\* C18: of the invocations that try to acquire restart.lock at the same
\* time, on an absent lock or on an expired one that is deleted and created
\* again, at most one gets the lease: it gets it by a create that found no
\* lock, it is then the only holder, and an invocation that does not get it
\* returns none; a lock that exists and has not expired is not acquired and
\* is left as it is
LeaseExclusive ==
    [][\A p \in Procs :
         Moved(p) /\ pc[p] \in AcquirePcs =>
           /\ Acquires(p) =>
                 /\ ~restartLock.exists
                 /\ restartLock'.exists
                 /\ restartLock'.generation = loc'[p].lock_gen
                 /\ \A q \in Procs \ {p} :
                       loc'[q].lock_gen # restartLock'.generation
           /\ ~Acquires(p) =>
                 /\ pc'[p] \in AcquirePcs \cup {"done"}
                 /\ loc'[p].lock_gen = 0
                 /\ pc'[p] = "done" => loc'[p].action = "orphaned"
                 /\ restartLock'.exists =>
                       /\ restartLock.exists
                       /\ restartLock'.generation = restartLock.generation
           /\ restartLock.exists /\ restartLock.age <= LOCK_TTL_SEC =>
                 /\ restartLock' = restartLock
                 /\ ~Acquires(p)]_vars

\* two invocations saw the same expired lock; one has replaced it and holds
\* the lease, the other is about to delete by the generation it saw
ReclaimContest ==
    \E p \in Procs, q \in Procs :
       /\ p # q
       /\ Holder(p)
       /\ loc[p].existing_gen > 0
       /\ pc[q] = "lock_reclaim"
       /\ loc[q].existing_gen = loc[p].existing_gen

\* p's executor is in its except branch because no zone took the instance
ZonesExhausted(p) == loc[p].error = "All zones exhausted"

\* state.json is still the RESTARTING record the executor wrote
StillRestarting ==
    stateObj.state = "RESTARTING" /\ stateObj.reason = "reconciler_restart"

\* state.json is the rollback to the state p's executor was entered with
RolledBackTo(p) ==
    /\ stateObj.state = loc[p].state_data.state
    /\ stateObj.reason = "restart_rollback"
    /\ stateObj.updated_by = "reconciler"
    /\ stateObj.prev_state = "RESTARTING"

Identity(rec) == <<rec.owner_id, rec.instance_name, rec.zone, rec.attempt>>

\* C20: a write that the CAS state writer gets accepted leaves owner_id,
\* instance_name, zone and attempt as they are in the record it replaces
\* (an absent record counts with the defaults); and when a restart fails,
\* state.json has the attempt count the executor was entered with
WriterKeepsIdentity ==
    [][\A p \in Procs :
         Moved(p) =>
           /\ pc[p] = "cas_upload" /\ stateGen' # stateGen =>
                 Identity(stateObj') = Identity(stateObj)
           /\ pc'[p] = "done" /\ loc'[p].action = "restart_failed" =>
                 stateObj'.attempt = loc[p].state_data.attempt]_vars

\* a restart was accepted and rolled back, and the record still names the
\* worker, its zone and attempt 0
IdentityAfterFailedRestart ==
    /\ \E p \in Procs : pc[p] = "done" /\ loc[p].action = "restart_failed"
    /\ stateObj.state_version >= 3
    /\ Identity(stateObj) = <<WorkerVm, WorkerVm, WorkerZone, 0>>

\* C21: when a read of state.json, heartbeat.json or the stale marker fails
\* during a tick although the object is there, the tick ends for the run
\* with nothing written or deleted; it does not go on as if the object were
\* absent
FailedReadAbandonsRun ==
    [][\A p \in Procs :
         Moved(p) =>
           /\ pc[p] = "rr_state" /\ stateObj.exists
              /\ ~loc'[p].state_data.exists
              => pc'[p] = "done"
           /\ pc[p] = "rr_hb" /\ hbObj.exists
              /\ ~loc'[p].heartbeat_data.exists
              => pc'[p] = "done"
           /\ pc[p] = "marker_read" /\ marker.exists
              => pc'[p] # "marker_write"]_vars

\* p's tick read the run as RUNNING and state.json now holds the ORPHANED
\* record of a confirmed orphan
OrphanedInThisTick(p) ==
    /\ loc[p].state_data.state = "RUNNING"
    /\ stateObj.state = "ORPHANED"
    /\ stateObj.prev_state = "RUNNING"
    /\ stateObj.reason = "stale_heartbeat_vm_gone"

\* the restart preconditions hold for the run as it stands in the store
RestartDue ==
    /\ restartEnabled
    /\ restartConfig.exists
    /\ stateObj.attempt < restartConfig.auto_restart_max
    /\ ~stopFile
    /\ ~restartLock.exists

\* C22: the tick that got RUNNING -> ORPHANED accepted calls the restart
\* executor on the run as it now stands: when the flag is on, restart_config
\* exists, attempt < auto_restart_max, .stop is absent and the lease is free,
\* the executor passes its checks and runs the protocol in that tick, and
\* the tick does not return orphaned
OrphanRestartedInSameTick ==
    [][\A p \in Procs :
         /\ Moved(p)
         /\ pc[p] = "tr_enabled"
         /\ OrphanedInThisTick(p)
         /\ RestartDue
         =>
           /\ pc'[p] = "tr_stop"
           /\ ~(pc'[p] = "done" /\ loc'[p].action = "orphaned")]_vars

\* the worker of the run is gone and the restart preconditions hold
WorkerGoneRestartAllowed ==
    /\ hbObj.exists /\ ~HbFresh(hbObj)
    /\ instances = {}
    /\ restartEnabled
    /\ restartConfig.exists
    /\ stateObj.attempt < restartConfig.auto_restart_max
    /\ ~stopFile

\* C23: a PREEMPTED run whose worker is gone (stale heartbeat, no instance)
\* and whose restart preconditions hold is, under repeated ticks, eventually
\* taken from PREEMPTED to RESTARTING by the reconciler
PreemptedRunRestarted ==
    (stateObj.state = "PREEMPTED" /\ WorkerGoneRestartAllowed)
        ~> (stateObj.state = "RESTARTING")

\* a replacement instance exists and state.json is RESTARTING
ReplacementCreated == stateObj.state = "RESTARTING" /\ instances # {}

\* C24: an ORPHANED run whose worker is gone for good, with the flag on,
\* restart_config present, attempt < auto_restart_max and no .stop, is
\* restarted under repeated ticks: some tick gets the lease, gets ORPHANED ->
\* RESTARTING accepted and creates the replacement, unless the operator
\* stops the run or the creation fails in every zone
OrphanedRunRestarted ==
    (stateObj.state = "ORPHANED" /\ WorkerGoneRestartAllowed /\ stateGen < MaxGen)
        ~> \/ ReplacementCreated
           \/ stateObj.state = "STOPPED"
           \/ \E p \in Procs : ZonesExhausted(p)

\* the tick that restarted the run: lease held, RESTARTING accepted for the
\* ORPHANED record it read, replacement created
RestartedByTick ==
    \E p \in Procs :
       /\ pc[p] = "release"
       /\ Holder(p)
       /\ loc[p].state_data.state = "ORPHANED"
       /\ stateObj.state = "RESTARTING"
       /\ stateObj.prev_state = "ORPHANED"
       /\ <<loc[p].vm_name, loc[p].restart_config.fallback_zones[loc[p].zone_idx]>> \in instances

\* C25: reconcile_all calls _reconcile_run once for every run id listed
\* under runs/; an exception of one run is caught and the loop goes on with
\* the next run; the scan ends with status ok (200) and reports the action
\* of every run that gave one
ScanVisitsEveryRun ==
    /\ [][scan.phase = "scanning" => scan'.phase \in {"scanning", "200"}]_vars
    /\ [][scan.phase = "scanning" /\ scan.todo # <<>> =>
            /\ scan'.calls[Head(scan.todo)] = 1
            /\ scan'.todo = Tail(scan.todo)]_vars
    /\ [](scan.phase = "200" =>
            \A r \in RunIds :
               /\ scan.calls[r] = IF r \in scan.listed THEN 1 ELSE 0
               /\ scan.actions[r] =
                     IF scan.result[r] \in {"unvisited", "none", "raised"}
                     THEN "absent" ELSE scan.result[r])

\* a scan has ended with 200 after the first run raised and a later run
\* gave an action
ScanSurvivedError ==
    /\ scan.phase = "200"
    /\ scan.listed = RunIds
    /\ scan.result["run-a"] = "raised"
    /\ scan.actions["run-c"] = "orphaned"

\* the edges of the canonical table as the claim lists them
ClaimedEdges ==
    {<<Null, "RUNNING">>, <<Null, "ORPHANED">>,
     <<"RUNNING", "COMPLETE">>, <<"RUNNING", "FAILED">>, <<"RUNNING", "PARTIAL">>,
     <<"RUNNING", "PREEMPTED">>, <<"RUNNING", "ORPHANED">>, <<"RUNNING", "STOPPED">>,
     <<"PREEMPTED", "RESTARTING">>, <<"PREEMPTED", "STOPPED">>,
     <<"ORPHANED", "RESTARTING">>, <<"ORPHANED", "STOPPED">>,
     <<"RESTARTING", "RUNNING">>, <<"RESTARTING", "ORPHANED">>,
     <<"RESTARTING", "STOPPED">>}

\* the triples for which the claim says can_transition succeeds
ClaimedAllowed(from, to, actor) ==
    /\ actor \in {"vm", "reconciler", "local", "operator"}
    /\ <<from, to>> \in ClaimedEdges
    /\ (from = Null /\ to = "ORPHANED") => actor = "reconciler"

\* C26: can_transition(from, to, actor) succeeds exactly when the actor is
\* valid, (from, to) is an edge of the table and the edge is unguarded or
\* names the actor; so nothing leaves a terminal state, and null -> ORPHANED
\* is accepted for the reconciler alone
TableAsClaimed ==
    \A p \in Procs :
       pc[p] = "cas_read" =>
          LET from == stateObj.state
              to == cas[p].new_state
              actor == cas[p].actor
          IN  /\ CanTransition(from, to, actor) <=> ClaimedAllowed(from, to, actor)
              /\ IsTerminal(from) => ~CanTransition(from, to, actor)
              /\ from = Null /\ to = "ORPHANED" =>
                    (CanTransition(from, to, actor) <=> actor = "reconciler")

\* the worker asks for null -> ORPHANED
GuardedEdgeAsked ==
    \E p \in Procs :
       /\ pc[p] = "cas_read"
       /\ ~stateObj.exists
       /\ cas[p].new_state = "ORPHANED"
       /\ cas[p].actor = "vm"

\* state.json is as p's tick read it, or was last written by the reconciler
NoOtherWriter(p) ==
    \/ stateObj.updated_by = "reconciler"
    \/ stateObj.state = loc[p].state_data.state

\* the record of a confirmed orphan, with its projection
OrphanConfirmed ==
    /\ stateObj.state = "ORPHANED"
    /\ stateObj.prev_state = "RUNNING"
    /\ stateObj.reason = "stale_heartbeat_vm_gone"
    /\ stateObj.updated_by = "reconciler"
    /\ statusTxt = "PREEMPTED"

\* C27: a live tick on a RUNNING run with a stale heartbeat, a stale marker
\* of at least 120 s with the heartbeat's epoch and an absent instance goes
\* from the marker to the instance check and from there to the write of
\* ORPHANED; when nobody else has written, state.json is then ORPHANED with
\* prev_state RUNNING, reason stale_heartbeat_vm_gone and updated_by
\* reconciler, status.txt is PREEMPTED, and the tick deletes the marker
OrphanConfirmedByTick ==
    [][\A p \in Procs :
         Moved(p) /\ loc[p].state_data.state = "RUNNING" =>
           /\ /\ pc[p] = "marker_read"
              /\ marker.exists /\ marker.age >= STALE_MARKER_MIN_AGE_SEC
              /\ marker.heartbeat_epoch_at_observation = loc[p].heartbeat_data.timestamp
              => pc'[p] \in {"vm_check", "manifest_read"}
           /\ /\ pc[p] = "vm_check"
              /\ instances = {}
              => /\ pc'[p] = "cas_read"
                 /\ cas'[p].new_state = "ORPHANED"
                 /\ cas'[p].reason = "stale_heartbeat_vm_gone"
                 /\ cas'[p].actor = "reconciler"
           /\ /\ pc[p] = "orph_marker"
              /\ NoOtherWriter(p)
              => /\ OrphanConfirmed
                 /\ ~marker'.exists]_vars

\* the tick has confirmed the orphan and deleted the marker
OrphanConfirmedMarkerGone ==
    /\ OrphanConfirmed
    /\ ~marker.exists
    /\ \E p \in Procs : pc[p] = "tr_enabled" /\ loc[p].state_data.state = "RUNNING"

\* where a tick stands in the two-stage stale detection
MarkerPcs == {"fresh_marker", "fresh_delete", "marker_read", "marker_write",
              "marker_reset", "manifest_read", "vm_check", "orph_marker"}

\* heartbeat.json has been written again since p's tick read it
HeartbeatRewritten(p) == loc[p].hb_epoch # hbObj.timestamp

\* p's tick, on a RESTARTING record, starts the stuck recovery
StartsStuckRecovery(p) ==
    /\ loc[p].state_data.state = "RESTARTING"
    /\ pc[p] \in {"rr_decide", "stuck_vm"}
    /\ pc'[p] = "cas_read"

\* C28: a tick on a RESTARTING run starts the stuck recovery, the write of
\* ORPHANED with reason restarting_stuck_recovery followed by the delete of
\* restart.lock, only when updated_at is older than RESTARTING_STUCK_SEC, the
\* instance named in state.json does not exist and the heartbeat is absent
\* or stale; with the instance there, a fresh heartbeat or a younger record
\* it changes nothing; and it never enters the two-stage stale detection
StuckRecoveryGuarded ==
    [][\A p \in Procs :
         Moved(p) /\ loc[p].state_data.state = "RESTARTING" =>
           /\ pc'[p] \notin MarkerPcs
           /\ StartsStuckRecovery(p) =>
                /\ cas'[p].new_state = "ORPHANED"
                /\ cas'[p].reason = "restarting_stuck_recovery"
                /\ loc[p].state_data.updated_age > RESTARTING_STUCK_SEC
                /\ <<loc[p].state_data.instance_name, loc[p].state_data.zone>>
                      \notin instances
                /\ ~HbFresh(hbObj) \/ HeartbeatRewritten(p)
           /\ pc[p] = "stuck_unlock" /\ ~DRY_RUN => ~restartLock'.exists
           /\ pc[p] \in {"rr_decide", "stuck_vm"} /\ ~StartsStuckRecovery(p) =>
                \/ pc[p] = "rr_decide" /\ pc'[p] = "stuck_vm"
                \/ pc'[p] = "done" /\ loc'[p].action = "none"]_vars

\* the call of line 468: the ORPHANED record of a run that has no state.json
LegacyCall(p) ==
    /\ cas[p].new_state = "ORPHANED"
    /\ cas[p].reason = "legacy_bootstrap_orphaned"

LegacyCreated ==
    /\ stateObj.exists
    /\ stateObj.state = "ORPHANED"
    /\ stateObj.prev_state = Null
    /\ stateObj.state_version = 1
    /\ stateObj.updated_by = "reconciler"
    /\ stateObj.reason = "legacy_bootstrap_orphaned"

\* C29: a live tick that read no state.json and found the instance absent
\* asks the writer for ORPHANED as the reconciler; while state.json is absent
\* the writer passes the request through the null -> ORPHANED edge with
\* generation 0, the accepted upload creates a record with state ORPHANED,
\* prev_state null, state_version 1 and updated_by reconciler, an upload with
\* generation 0 never replaces an existing state.json, and the tick, which
\* cannot restart a run it read no record of, returns orphaned
LegacyBootstrapCreates ==
    [][\A p \in Procs :
         /\ pc[p] = "vm_check" /\ pc'[p] = "cas_read" /\ ~loc[p].state_data.exists =>
              /\ cas'[p].new_state = "ORPHANED"
              /\ cas'[p].reason = "legacy_bootstrap_orphaned"
              /\ cas'[p].actor = "reconciler"
         /\ pc[p] = "cas_read" /\ pc'[p] = "cas_upload" /\ LegacyCall(p) /\ ~stateObj.exists =>
              /\ ~cas'[p].current.exists
              /\ cas'[p].generation = 0
         /\ pc[p] = "cas_upload" /\ Moved(p) /\ LegacyCall(p) /\ ~stateObj.exists =>
              /\ cas[p].generation = 0
              /\ LegacyCreated'
         /\ pc[p] = "cas_upload" /\ Moved(p) /\ LegacyCall(p) /\ stateObj.exists /\ cas[p].generation = 0 =>
              stateObj' = stateObj
         /\ pc[p] \in {"orph_marker", "tr_enabled"} /\ ~loc[p].state_data.exists /\ pc'[p] = "done" =>
              loc'[p].action = "orphaned"
         /\ pc[p] = "tr_enabled" /\ ~loc[p].state_data.exists => pc'[p] \in {"tr_enabled", "done"}]_vars

\* the tick is over with orphaned and the record it created is in the store
LegacyRunBootstrapped ==
    /\ LegacyCreated
    /\ stateGen = 1
    /\ \E p \in Procs : pc[p] = "done" /\ loc[p].action = "orphaned"

\* status.txt differs from the projection of the record the tick has read,
\* which is the record in the store
Drifted(p) ==
    /\ loc[p].state_data.exists
    /\ loc[p].state_data.state = stateObj.state
    /\ loc[p].state_data.state # "RESTARTING"
    /\ statusTxt # StatusCompat(loc[p].state_data.state)

\* the steps a live tick takes on a drifted run in one of the states: after
\* its reads it goes to the repair, the repair finds the drift and, with
\* .drift_repair_disabled absent, rewrites status.txt to the projection
RepairsDrift(states) ==
    \A p \in Procs :
       Moved(p) /\ Drifted(p) /\ loc[p].state_data.state \in states =>
         /\ pc[p] = "rr_hb" => pc'[p] = "drift_status"
         /\ pc[p] = "drift_status" /\ ~driftDisabled /\ ~DRY_RUN => pc'[p] = "drift_write"
         /\ pc[p] = "drift_write" => statusTxt' = StatusCompat(stateObj.state)

\* C30: for every state other than RESTARTING, the terminal states included
\* (COMPLETE with status.txt RUNNING is one), a tick on a run whose status.txt
\* has drifted rewrites it to status_compat(state)
DriftRepairedByTick == [][RepairsDrift(States)]_vars

\* the same for the states a tick does not skip
DriftRepairedWhileOpen == [][RepairsDrift(States \ TERMINAL_STATES)]_vars

\* the tick has read a fresh heartbeat of a run that is not RESTARTING (a
\* terminal run never comes this far)
ReadFreshHeartbeat(p) ==
    /\ pc[p] \in {"rr_decide", "fresh_marker", "fresh_delete"}
    /\ HbFresh(loc[p].heartbeat_data)
    /\ ~(loc[p].state_data.exists /\ loc[p].state_data.state = "RESTARTING")
    /\ ~(loc[p].state_data.exists /\ IsTerminal(loc[p].state_data.state))

ReadStaleHeartbeat(p) ==
    /\ loc[p].heartbeat_data.exists
    /\ ~HbFresh(loc[p].heartbeat_data)
    /\ ~(loc[p].state_data.exists /\ loc[p].state_data.state = "RESTARTING")

StateFilesKept ==
    /\ stateObj' = stateObj
    /\ stateGen' = stateGen
    /\ statusTxt' = statusTxt

EpochChanged(p) ==
    /\ ReadStaleHeartbeat(p)
    /\ marker.exists
    /\ MarkerOldEnough(marker)
    /\ marker.heartbeat_epoch_at_observation # 0
    /\ marker.heartbeat_epoch_at_observation # loc[p].heartbeat_data.timestamp

\* the step is not the one of a first observation: the tick's read of the
\* marker returned it
MarkerSeen(p) ==
    /\ pc'[p] # "marker_write"
    /\ ~(pc'[p] = "done" /\ loc'[p].action = "stale_first_observation")

RepairDue(p) ==
    /\ loc[p].state_data.exists
    /\ loc[p].state_data.state # "RESTARTING"
    /\ statusTxt # "ABSENT"
    /\ statusTxt # StatusCompat(loc[p].state_data.state)
    /\ ~driftDisabled

\* what the drift step of a live tick does to status.txt, on the runs whose
\* status.txt exists, and with any those where it is missing: a RESTARTING record never brings the tick to
\* the step, the step goes on to the upload exactly when the repair is due,
\* the upload writes the projection, and no other step of it writes status.txt
DriftStep(any) ==
    \A p \in Procs :
       Moved(p) /\ (any \/ statusTxt # "ABSENT") =>
         /\ pc[p] = "rr_hb" =>
              /\ statusTxt' = statusTxt
              /\ loc[p].state_data.state = "RESTARTING" => pc'[p] # "drift_status"
         /\ pc[p] = "drift_status" =>
              /\ statusTxt' = statusTxt
              /\ pc'[p] = "drift_write" <=> RepairDue(p)
         /\ pc[p] = "drift_write" =>
              statusTxt' = StatusCompat(loc[p].state_data.state)

\* C34: the drift step of a tick on a non-terminal run overwrites status.txt
\* with status_compat(state) exactly when the state is set and is not
\* RESTARTING, status.txt exists with a content other than the projection, and
\* .drift_repair_disabled is absent; in every other case, a missing
\* status.txt included, it neither writes nor creates status.txt
DriftStepExact == [][DriftStep(TRUE)]_vars

\* the same for the runs that have a status.txt
DriftStepExactWhenPresent == [][DriftStep(FALSE)]_vars

\* where an invocation stands inside _clear_owner_lock_preconditioned
OwnerPcs == {"owner_read", "owner_vm", "owner_delete"}

\* p asks the writer for RESTARTING in this step
RequestsRestarting(p) ==
    /\ ~InCall(p)
    /\ pc'[p] = "cas_read"
    /\ cas'[p].new_state = "RESTARTING"

\* an instance is inserted in this step
InstanceCreated == instances' \ instances # {}

\* the instance that .owner.lock names exists
OwnerAlive == ownerLock.exists /\ <<ownerLock.instance, ownerLock.zone>> \in instances

\* the order of the executor's steps inside one invocation
StepsInOrder(p) ==
    /\ pc'[p] = "owner_read" => Acquires(p) /\ loc'[p].lock_gen = restartLock'.generation
    /\ RequestsRestarting(p) => pc[p] \in OwnerPcs
    /\ pc'[p] = "create_vm" /\ pc[p] # "create_vm" =>
         pc[p] \in {"cas_read", "cas_upload", "cas_status"} /\ cas[p].new_state = "RESTARTING"
    /\ InstanceCreated => pc[p] = "create_vm" /\ cas[p].result # "rejected"
    /\ pc[p] \in {"release", "release_uncond"} => loc[p].vm_name # ""

\* C35: the executor takes its steps in order. It comes to .owner.lock only
\* from the acquisition of restart.lock and as its holder; it asks for
\* RESTARTING only from the clearing of the owner lock, and not while the
\* owner's instance is alive; it comes to the instance inserts only from the
\* writer's call for RESTARTING, and inserts an instance only when that call
\* was accepted and while it holds the lease it acquired; and it deletes its
\* lease on the way to 'restarted' only after it created an instance
RestartOrdered ==
    [][\A p \in Procs :
         Moved(p) =>
           /\ StepsInOrder(p)
           /\ RequestsRestarting(p) => ~OwnerAlive
           /\ InstanceCreated => Holder(p)]_vars

\* the order alone
RestartStepsOrdered == [][\A p \in Procs : Moved(p) => StepsInOrder(p)]_vars

\* p's upload of an ORPHANED record that reconcile_run asked for is accepted
\* in this step
OrphanedAccepted(p) ==
    /\ pc[p] = "cas_upload"
    /\ pc'[p] = "cas_status"
    /\ cas[p].new_state = "ORPHANED"
    /\ cas[p].reason \in {"stale_heartbeat_vm_gone", "legacy_bootstrap_orphaned",
                          "restarting_stuck_recovery"}

\* C36: when a tick that read a record of state.json gets its ORPHANED write
\* accepted, state.json holds the state the tick read at its start
OrphanedOnlyOverStateRead ==
    [][\A p \in Procs :
         OrphanedAccepted(p) /\ loc[p].state_data.exists =>
           stateObj.state = loc[p].state_data.state]_vars

\* p enters the except branch of line 767 and asks for the rollback
RequestsRollback(p) ==
    /\ ~InCall(p)
    /\ pc'[p] = "cas_read"
    /\ cas'[p].reason = "restart_rollback"

\* p's upload of the rollback record is accepted in this step
RollbackAccepted(p) ==
    /\ pc[p] = "cas_upload"
    /\ pc'[p] = "cas_status"
    /\ cas[p].reason = "restart_rollback"

\* the errors raised after the invocation's own RESTARTING write was accepted
\* and before an instance was created
AfterOwnRestarting == {"All zones exhausted"}

\* C37: an invocation that created an instance never asks for the rollback,
\* and a rollback is accepted only over a RESTARTING record, for an
\* invocation that had its own RESTARTING write accepted and created no
\* instance
RollbackOnlyOwnRestart ==
    [][\A p \in Procs :
         /\ RequestsRollback(p) => loc[p].vm_name = ""
         /\ RollbackAccepted(p) =>
              /\ stateObj.state = "RESTARTING"
              /\ loc[p].error \in AfterOwnRestarting
              /\ loc[p].vm_name = ""]_vars

\* C38: the reconciler has created at most restart_config.auto_restart_max
\* instances for the run (nobody but the reconciler writes the attempt field)
RestartBudgetKept == inserted <= restartConfig.auto_restart_max

\* the instances _create_vm_from_config has created that exist now
Replacements ==
    {i \in instances : \E n \in 1..Len(VmNames) : i[1] = VmName(n)}

\* p's upload of the ORPHANED record of the stuck-RESTARTING recovery is
\* accepted over a RESTARTING record in this step
StuckRecoveryAccepted(p) ==
    /\ pc[p] = "cas_upload"
    /\ pc'[p] = "cas_status"
    /\ cas[p].reason = "restarting_stuck_recovery"
    /\ stateObj.state = "RESTARTING"
    /\ stateObj'.state = "ORPHANED"

\* C39: the stuck-RESTARTING recovery moves the run from RESTARTING to
\* ORPHANED only when no replacement instance of the restart exists
RecoverySparesReplacement ==
    [][\A p \in Procs : StuckRecoveryAccepted(p) => Replacements = {}]_vars

\* C40: at no time do two replacement instances of the run exist
OneReplacementAtATime == Cardinality(Replacements) <= 1
====
